---- MODULE Spec2Model ----
(***************************************************************************)
(* A model of the request/response orchestration layer of WaldurClient     *)
(* (waldur_client/__init__.py): the request executor _make_request with    *)
(* its wrappers, the paginated reader _get_all, the resource resolver      *)
(* (_get_resource, _query_resource, _make_get_query) and the state poller  *)
(* _wait_for_resource.                                                     *)
(*                                                                         *)
(* The remote server is the environment: every HTTP request is answered by *)
(* a response drawn from a small set, or fails at the network level.       *)
(* One action is one HTTP request together with everything the client does *)
(* with its answer, up to the next request or the end of the call.         *)
(***************************************************************************)
EXTENDS Integers, Sequences, FiniteSets, TLC

\* ---------------------------------------------------------------- bounds
\* URLs are numbered 1..MaxPage
MaxPage == 3
\* the request and response logs keep the first MaxLog entries
MaxLog == 3
\* _wait_for_resource is called with interval 0..MaxInterval and
\* timeout 0..MaxTimeout
MaxInterval == 2
MaxTimeout == 3
\* MaxThreads threads call the same client, each at most MaxCalls times
MaxThreads == 2
MaxCalls == 2
Threads == 1..MaxThreads

\* ------------------------------------------------------ program constants
\* _make_request(..., retry_count=3, ...)
DefaultRetryCount == 3
\* _get passes retry_count 1
GetRetryCount == 1
\* time.sleep(2)
BackoffSeconds == 2

\* the statuses _make_request follows for a POST
RedirectCodes == {301, 302, 303, 307, 308}
ConflictStatus == 409
OkStatus == 200

\* ------------------------------------------------------------ environment
\* words a URL may contain (a host name, a path or a filter value)
UrlWords == {"", "next", "prev"}
Urls == [page : 1..MaxPage, txt : UrlWords]
PlainUrls == {u \in Urls : u.txt = ""}
NoUrl == [page |-> 0, txt |-> ""]

\* statuses the server answers with
ServerStatuses == {200, 302, 404, 409}
\* response bodies: empty, a JSON list, and a body that is not JSON
ServerTexts == {"", "[a]", "oops"}
\* bodies of list pages
PageTexts == {"[a]", "[b]", "[a,b]"}
\* bodies answered to a resolver query: empty, lists of 0, 1 and 2 resources,
\* one resource, and a body that is not JSON
QueryTexts == {"", "[]", "[a]", "[a,b]", "{a}", "oops"}
\* bodies answered to a state probe: a resource in a state, empty, not JSON
ResourceTexts == {"{OK}", "{Erred}", "{Updating}", "", "oops"}
\* bodies answered to a probe of an instance's addresses: an instance with
\* and without an external address, empty, not JSON
IpTexts == {"{OK,ip}", "{OK}", "", "oops"}
\* bodies answered to the request that creates or changes a resource: the
\* resource, empty, not JSON
CreatedTexts == {"{a}", "", "oops"}
\* bodies answered to the list of marketplace resources of a scope: empty,
\* lists of 0, 1 and 2 resources, not JSON
ScopeTexts == {"", "[]", "[a]", "[a,b]", "oops"}
\* bodies answered to a read of a creation order: the order in a state, with
\* or without the reference to its resource, empty, not JSON
OrderTexts == {"{executing}", "{executing,ref}", "{erred}", "{erred,ref}", "",
               "oops"}
\* expected-status sets callers pass
ValidStateSets == {{200}, {200, 409}, {200, 302}}
NetworkFailure == 0

\* response.json(): defined on JSON texts only (ValueError otherwise)
\* A JSON object is a resource; the model keeps one field of it, its name or
\* its state.
IsJson(text) == text \in {"[]", "[a]", "[b]", "[a,b]", "{a}", "{OK}", "{Erred}",
                          "{Updating}", "{OK,ip}", "{executing}",
                          "{executing,ref}", "{erred}", "{erred,ref}"}
Json(text) ==
  CASE text = "[]"    -> [t |-> "list", v |-> <<>>]
    [] text = "[a]"   -> [t |-> "list", v |-> <<"a">>]
    [] text = "[b]"   -> [t |-> "list", v |-> <<"b">>]
    [] text = "[a,b]" -> [t |-> "list", v |-> <<"a", "b">>]
    [] text = "{a}"   -> [t |-> "dict", v |-> <<"a">>]
    [] text = "{OK}"  -> [t |-> "dict", v |-> <<"OK">>]
    [] text = "{Erred}" -> [t |-> "dict", v |-> <<"Erred">>]
    [] text = "{Updating}" -> [t |-> "dict", v |-> <<"Updating">>]
    [] text = "{OK,ip}" -> [t |-> "dict", v |-> <<"OK", "ip">>]
    [] text = "{executing}" -> [t |-> "dict", v |-> <<"executing">>]
    [] text = "{executing,ref}" -> [t |-> "dict", v |-> <<"executing", "ref">>]
    [] text = "{erred}" -> [t |-> "dict", v |-> <<"erred">>]
    [] text = "{erred,ref}" -> [t |-> "dict", v |-> <<"erred", "ref">>]
\* the "" _make_request returns for an empty body
EmptyString == [t |-> "str", v |-> <<>>]
\* the response object _make_request returns for head
ResponseObject(status, text) == [t |-> "response", v |-> <<status, text>>]
NoValue == [t |-> "none", v |-> <<>>]

VARIABLES
  pc,                  \* "idle", "make_request", "get_all", "done"
  op,                  \* the top-level operation of the call
  method,              \* _make_request: method
  url,                 \* the URL of the next request
  valid_states,        \* _make_request: valid_states
  retry_count,         \* _make_request: retry_count
  prev_response_data,  \* _make_request: prev_response_data (None is "None")
  result,              \* _get_all: result
  outcome,             \* how the call ended: value returned or error raised
  requests,            \* number of HTTP requests sent (counts up to MaxLog + 1)
  sent,                \* the requests sent, in order
  got,                 \* the responses received, in order
  slept,               \* total time spent in time.sleep
  frame,               \* the method that called _get and waits for its result
  value,               \* _get_resource: value (the identifier)
  extra,               \* _get_resource: extra
  query_url,           \* _make_get_query: what _query_resource appended to url
  query_params,        \* _make_get_query: query_params
  get_first,           \* _make_get_query: get_first
  get_few,             \* _make_get_query: get_few
  interval,            \* _wait_for_resource: interval
  timeout,             \* _wait_for_resource: timeout
  waited,              \* _wait_for_resource: waited
  probes,              \* number of calls of _is_resource_ready
  sleeps,              \* number of calls of time.sleep(interval)
  seen,                \* the states the probes reported, in order
  looping,             \* the poller is inside its while loop
  polled,              \* total time spent in time.sleep(interval)
  steps,               \* a multi-step operation: the steps not yet completed
  args,                \* a multi-step operation: its arguments
  resource,            \* a multi-step operation: the record created or read
  calls                \* several callers of one client: the locals of each

\* the variables of the resolver, of the poller and of the operations
query == <<value, extra, query_url, query_params, get_first, get_few>>
wait == <<interval, timeout, waited, probes, sleeps, seen, looping, polled>>
ops == <<steps, args, resource>>

vars == <<pc, op, method, url, valid_states, retry_count, prev_response_data,
          result, outcome, requests, sent, got, slept, frame, query, wait, ops,
          calls>>

NoMessage == [method |-> "", url |-> NoUrl, status |-> 0, data |-> "", json |-> NoValue]
NoOutcome == [kind |-> "none", exc |-> "", error |-> "", value |-> NoValue,
              msg |-> NoMessage]
Returned(val) == [kind |-> "returned", exc |-> "", error |-> "", value |-> val,
                  msg |-> NoMessage]
Raised(exc, error, msg) == [kind |-> "raised", exc |-> exc, error |-> error,
                            value |-> NoValue, msg |-> msg]

\* the Link header of a response.  The server builds it from the entries
\* rel="first", rel="prev", rel="next", rel="last", in this order: first (page
\* 1) and last (page MaxPage) always, prev and next when there is such a page.
\* A header may also be cut down to its rel="next" entry.
WaldurLinks == [present : {TRUE}, first : {TRUE}, prev : BOOLEAN,
                next : 0..MaxPage, last : {MaxPage}]
BareLinks == [present : {TRUE}, first : {FALSE}, prev : {FALSE},
              next : 1..MaxPage, last : {0}]
Links == WaldurLinks \cup BareLinks
NoLink == [present |-> FALSE, first |-> FALSE, prev |-> FALSE, next |-> 0, last |-> 0]

\* a response as the logs keep it
Response(status, text, location, link) ==
  [status |-> status, text |-> text, location |-> location,
   link |-> link.present, first |-> link.first, next |-> link.next, last |-> link.last]

\* the logs keep their first MaxLog entries
Log(log, entry) == IF Len(log) < MaxLog THEN Append(log, entry) ELSE log
Count(n) == IF n <= MaxLog THEN n + 1 ELSE n
\* the logs hold every request of the call
Complete == requests <= MaxLog

\* no multi-step operation, and no caller
NoArgs == [project |-> FALSE, wait |-> FALSE, gateway_ip |-> FALSE,
           disable_gateway |-> FALSE, connect_subnet |-> FALSE,
           disconnect_subnet |-> FALSE, unlink_subnet |-> FALSE,
           networks |-> <<>>, check_mode |-> FALSE, interval |-> 0,
           timeout |-> 0, uuid |-> TRUE, options |-> {}]
NoCall == [pc |-> "idle", kind |-> "", n |-> 0, retry_count |-> 0,
           conflicts |-> 0, attempts |-> 0, interval |-> 0, timeout |-> 0,
           waited |-> 0, naps |-> 0, looping |-> FALSE, outcome |-> ""]
NoCalls == [t \in Threads |-> NoCall]

Init ==
  /\ pc = "idle"
  /\ op = ""
  /\ method = ""
  /\ url = NoUrl
  /\ valid_states = {}
  /\ retry_count = 0
  /\ prev_response_data = "None"
  /\ result = <<>>
  /\ outcome = NoOutcome
  /\ requests = 0
  /\ sent = <<>>
  /\ got = <<>>
  /\ slept = 0
  /\ frame = ""
  /\ value = <<>>
  /\ extra = {}
  /\ query_url = <<>>
  /\ query_params = {}
  /\ get_first = FALSE
  /\ get_few = FALSE
  /\ interval = 0
  /\ timeout = 0
  /\ waited = 0
  /\ probes = 0
  /\ sleeps = 0
  /\ seen = <<>>
  /\ looping = FALSE
  /\ polled = 0
  /\ steps = <<>>
  /\ args = NoArgs
  /\ resource = NoValue
  /\ calls = NoCalls

\* -------------------------------------------------------- _make_request
\* the URL a caller builds with _build_url
StartUrl == [page |-> 1, txt |-> ""]

\* entry of _make_request from a wrapper
Enter(wrapper, m, u, vs, rc) ==
  /\ pc = "idle"
  /\ pc' = "make_request"
  /\ op' = wrapper
  /\ method' = m
  /\ url' = u
  /\ valid_states' = vs
  /\ retry_count' = rc
  /\ prev_response_data' = "None"
  /\ UNCHANGED <<result, outcome, requests, sent, got, slept, frame, query, wait, ops, calls>>

_get == \E vs \in ValidStateSets :
          Enter("_get", "get", StartUrl, vs, GetRetryCount)
_head == Enter("_head", "head", StartUrl, {200}, DefaultRetryCount)
_post == \E vs \in ValidStateSets :
          Enter("_post", "post", StartUrl, vs, DefaultRetryCount)
_put == \E vs \in ValidStateSets :
          Enter("_put", "put", StartUrl, vs, DefaultRetryCount)
_patch == \E vs \in ValidStateSets :
          Enter("_patch", "patch", StartUrl, vs, DefaultRetryCount)
_delete == \E vs \in ValidStateSets :
          Enter("_delete", "delete", StartUrl, vs, DefaultRetryCount)

\* _parse_error: the URL, the status and the body when it parses as JSON
_parse_error_unparsed(u, status, text) ==
  [method |-> "", url |-> u, status |-> status, data |-> "", json |-> NoValue]
_parse_error(u, status, text) ==
  [method |-> "", url |-> u, status |-> status, data |-> "",
   json |-> IF IsJson(text) THEN Json(text) ELSE NoValue]

\* the message of the retry-limit error: method, url, prev_response_data
RetryLimitMessage(m, u, data) ==
  [method |-> m, url |-> u, status |-> 0, data |-> data, json |-> NoValue]

\* if retry_count == 0: raise
RetryLimit ==
  /\ pc = "make_request"
  /\ retry_count = 0
  /\ pc' = "done"
  /\ outcome' = Raised("WaldurClientException", "retry_limit",
                       RetryLimitMessage(method, url, prev_response_data))
  /\ UNCHANGED <<op, method, url, valid_states, retry_count, prev_response_data,
                 result, requests, sent, got, slept, frame, query, wait, ops, calls>>

\* the Location header the server sends with a status
Locations(status) == IF status \in RedirectCodes THEN PlainUrls ELSE {NoUrl}

\* the logs are kept for a call made on its own, not for the requests of a
\* multi-step operation
Logged == steps = <<>>

\* getattr(requests, method)(url, **params): guard and logs shared by the
\* actions below, one for each way _make_request treats the answer
Request(status, text, location) ==
  /\ pc = "make_request"
  /\ retry_count # 0
  /\ requests' = Count(requests)
  /\ sent' = IF Logged THEN Log(sent, [url |-> url, kwargs |-> TRUE]) ELSE sent
  /\ got' = IF Logged THEN Log(got, Response(status, text, location, NoLink))
            ELSE got
  /\ UNCHANGED <<frame, query, wait, ops, calls>>

\* the statuses the server answers with: the usual ones and those expected
Statuses == ServerStatuses \cup valid_states

\* the bodies the server answers with: those of the endpoint the call is for
Bodies ==
  CASE frame \in {"_make_get_query", "_get_tenant"} -> QueryTexts
    [] frame = "_wait_for_resource" -> ResourceTexts
    [] frame = "_wait_for_external_ip" -> IpTexts
    [] frame = "_get_resource_from_creation_order" -> OrderTexts
    [] frame = "get_marketplace_resource_scope" ->
         IF Head(steps).name = "list" THEN ScopeTexts ELSE CreatedTexts
    [] frame = "" /\ steps # <<>> -> CreatedTexts
    [] OTHER -> ServerTexts

\* method == "post" and response.status_code in [301, 302, 303, 307, 308]
IsRedirectUnexpected(m, status) == m = "post" /\ status \in RedirectCodes /\ status \notin valid_states
IsRedirectAnyMethod(m, status) == status \in RedirectCodes
IsRedirect(m, status) == m = "post" /\ status \in RedirectCodes

\* the retry_count passed on after a redirect and after a 409
RedirectRetryCount(rc) == rc
ConflictRetryCountKept(rc) == rc
ConflictRetryCount(rc) == rc - 1

\* what _make_request returns: the response for head, the parsed body, or ""
ReturnValueUnparsed(m, status, text) == ResponseObject(status, text)
ReturnValue(m, status, text) ==
  IF m = "head" THEN ResponseObject(status, text)
  ELSE IF text # "" THEN Json(text)
  ELSE EmptyString

\* requests raises RequestException
SendFailsRetried ==
  /\ Request(NetworkFailure, "", NoUrl)
  /\ slept' = slept + BackoffSeconds
  /\ retry_count' = retry_count - 1
  /\ UNCHANGED <<pc, op, method, url, valid_states, prev_response_data, result,
                 outcome>>
SendFails ==
  /\ Request(NetworkFailure, "", NoUrl)
  /\ pc' = "done"
  /\ outcome' = Raised("WaldurClientException", "transport", NoMessage)
  /\ UNCHANGED <<op, method, url, valid_states, retry_count, prev_response_data,
                 result, slept>>

\* a redirect answered to a POST: the call is made again to Location
FollowRedirect ==
  \E status \in Statuses : \E location \in Locations(status) :
    /\ Request(status, "", location)
    /\ IsRedirect(method, status)
    /\ url' = location
    /\ retry_count' = RedirectRetryCount(retry_count)
    /\ prev_response_data' = "None"
    /\ UNCHANGED <<pc, op, method, valid_states, result, outcome, slept>>

\* an unexpected 409: sleep, then the call is made again with one retry less
ConflictNoSleep ==
  \E text \in Bodies :
    /\ Request(ConflictStatus, text, NoUrl)
    /\ ~IsRedirect(method, ConflictStatus)
    /\ ConflictStatus \notin valid_states
    /\ retry_count' = ConflictRetryCount(retry_count)
    /\ prev_response_data' = text
    /\ UNCHANGED <<pc, op, method, url, valid_states, result, outcome, slept>>
Conflict ==
  \E text \in Bodies :
    /\ Request(ConflictStatus, text, NoUrl)
    /\ ~IsRedirect(method, ConflictStatus)
    /\ ConflictStatus \notin valid_states
    /\ slept' = slept + BackoffSeconds
    /\ retry_count' = ConflictRetryCount(retry_count)
    /\ prev_response_data' = text
    /\ UNCHANGED <<pc, op, method, url, valid_states, result, outcome>>

\* any other unexpected status
RequestError ==
  \E status \in Statuses, text \in Bodies :
    \E location \in Locations(status) :
      /\ Request(status, text, location)
      /\ ~IsRedirect(method, status)
      /\ status \notin valid_states
      /\ status # ConflictStatus
      /\ pc' = "done"
      /\ outcome' = Raised("WaldurClientException", "request_error",
                           _parse_error(url, status, text))
      /\ UNCHANGED <<op, method, url, valid_states, retry_count,
                     prev_response_data, result, slept>>

\* response.json() succeeds, or is not called
Parses(m, text) == m = "head" \/ text = "" \/ IsJson(text)

\* an expected status
Success ==
  \E status \in Statuses, text \in Bodies :
    \E location \in Locations(status) :
      /\ Request(status, text, location)
      /\ ~IsRedirect(method, status)
      /\ status \in valid_states
      /\ Parses(method, text)
      /\ pc' = "done"
      /\ outcome' = Returned(ReturnValue(method, status, text))
      /\ UNCHANGED <<op, method, url, valid_states, retry_count,
                     prev_response_data, result, slept>>

\* an expected status with a body that is not JSON: response.json() raises
DecodeError ==
  \E status \in Statuses, text \in Bodies :
    \E location \in Locations(status) :
      /\ Request(status, text, location)
      /\ ~IsRedirect(method, status)
      /\ status \in valid_states
      /\ ~Parses(method, text)
      /\ pc' = "done"
      /\ outcome' = Raised("ValueError", "decode", NoMessage)
      /\ UNCHANGED <<op, method, url, valid_states, retry_count,
                     prev_response_data, result, slept>>

NextRequest ==
  \/ _get \/ _head \/ _post \/ _put \/ _patch \/ _delete
  \/ RetryLimit \/ SendFails \/ FollowRedirect \/ Conflict \/ RequestError
  \/ Success \/ DecodeError

SpecRequest == Init /\ [][NextRequest]_vars

\* the calling thread runs every call to its end
FairRequest == SpecRequest /\ WF_vars(NextRequest)

\* ------------------------------------------------------------- _get_all
\* _get_all(url, **kwargs), called by the list operations; the URLs of the
\* listing (host, path, filters) may contain one of the UrlWords
_get_all ==
  \E word \in UrlWords :
    /\ pc = "idle"
    /\ pc' = "get_all"
    /\ op' = "_get_all"
    /\ method' = "get"
    /\ url' = [page |-> 1, txt |-> word]
    /\ UNCHANGED <<valid_states, retry_count, prev_response_data, result,
                   outcome, requests, sent, got, slept, frame, query, wait, ops, calls>>

\* the entries of a Link header, in header order
Entry(rel, u) == [rel |-> rel, url |-> u]
LinkEntries(link, word) ==
  (IF link.first THEN <<Entry("first", [page |-> 1, txt |-> word])>> ELSE <<>>)
  \o (IF link.prev THEN <<Entry("prev", [page |-> 1, txt |-> word])>> ELSE <<>>)
  \o (IF link.next # 0
      THEN <<Entry("next", [page |-> link.next, txt |-> word])>> ELSE <<>>)
  \o (IF link.last # 0
      THEN <<Entry("last", [page |-> link.last, txt |-> word])>> ELSE <<>>)

\* "next" in response.headers["Link"]: the word occurs somewhere in the header
\* text, as a rel value or inside a URL
Contains(entries, word) ==
  \E i \in DOMAIN entries : entries[i].rel = word \/ entries[i].url.txt = word

\* the position (from 1) of the entry _get_all reads the next URL from:
\* split(", ")[2] when "prev" occurs in the header, split(", ")[1] otherwise
NextIndex(entries) == IF Contains(entries, "prev") THEN 3 ELSE 2

\* the responses the server gives to a page request
PageResponses == (Links \cup {NoLink}) \X PageTexts
\* the statuses that _get_all does not accept
PageErrorStatuses == ServerStatuses \ {OkStatus}

\* whether request number n + 1 carries the caller's kwargs: the first is
\* requests.get(url, **params), the later ones requests.get(next_url,
\* **auth_params)
PageKwargsAlways(n) == TRUE
PageKwargs(n) == n = 0

\* requests.get(url, **params): guard and logs shared by the actions below.
\* A listing is followed for MaxLog requests.
GetPage(status, text, link) ==
  /\ pc = "get_all"
  /\ requests < MaxLog
  /\ requests' = Count(requests)
  /\ sent' = Log(sent, [url |-> url, kwargs |-> PageKwargs(requests)])
  /\ got' = Log(got, Response(status, text, NoUrl, link))
  /\ UNCHANGED <<frame, query, wait, ops, calls>>

\* result = response.json() and result += response.json()
Extend(res, text) == res \o Json(text).v

\* if "Link" not in response.headers: return result (after the first request)
ReturnsWithoutLinkNever(n, link) == FALSE
ReturnsWithoutLink(n, link) == n = 0 /\ ~link.present

\* while "next" in response.headers["Link"]
HasNext(link, word) == link.present /\ Contains(LinkEntries(link, word), "next")

\* requests raises RequestException
PageFails ==
  /\ GetPage(NetworkFailure, "", NoLink)
  /\ pc' = "done"
  /\ outcome' = Raised("WaldurClientException", "transport", NoMessage)
  /\ UNCHANGED <<op, method, url, valid_states, retry_count, prev_response_data,
                 result, slept>>

\* response.status_code != 200
PageErrorPartial ==
  \E status \in PageErrorStatuses, text \in ServerTexts :
    /\ GetPage(status, text, NoLink)
    /\ pc' = "done"
    /\ outcome' = Returned([t |-> "list", v |-> result])
    /\ UNCHANGED <<op, method, url, valid_states, retry_count, prev_response_data,
                   result, slept>>
PageError ==
  \E status \in PageErrorStatuses, text \in ServerTexts :
    /\ GetPage(status, text, NoLink)
    /\ pc' = "done"
    /\ outcome' = Raised("WaldurClientException", "request_error",
                         _parse_error(url, status, text))
    /\ UNCHANGED <<op, method, url, valid_states, retry_count, prev_response_data,
                   result, slept>>

\* the page is the last one: the first page without a Link header, or a page
\* whose Link header does not contain "next"
PageLast ==
  \E r \in PageResponses :
    /\ GetPage(OkStatus, r[2], r[1])
    /\ \/ ReturnsWithoutLink(requests, r[1])
       \/ r[1].present /\ ~HasNext(r[1], url.txt)
    /\ result' = Extend(result, r[2])
    /\ pc' = "done"
    /\ outcome' = Returned([t |-> "list", v |-> result'])
    /\ UNCHANGED <<op, method, url, valid_states, retry_count, prev_response_data,
                   slept>>

\* the header contains "next": the next URL is read from its position
PageNext ==
  \E r \in PageResponses :
    LET entries == LinkEntries(r[1], url.txt) IN
    /\ GetPage(OkStatus, r[2], r[1])
    /\ HasNext(r[1], url.txt)
    /\ NextIndex(entries) \in DOMAIN entries
    /\ result' = Extend(result, r[2])
    /\ url' = entries[NextIndex(entries)].url
    /\ UNCHANGED <<pc, op, method, valid_states, retry_count, prev_response_data,
                   outcome, slept>>

\* a later page without a Link header: response.headers["Link"] raises KeyError
PageKeyError ==
  \E r \in PageResponses :
    /\ GetPage(OkStatus, r[2], r[1])
    /\ ~r[1].present /\ ~ReturnsWithoutLink(requests, r[1])
    /\ result' = Extend(result, r[2])
    /\ pc' = "done"
    /\ outcome' = Raised("KeyError", "link", NoMessage)
    /\ UNCHANGED <<op, method, url, valid_states, retry_count, prev_response_data,
                   slept>>

\* the header contains "next" but has no entry at the position read:
\* split(", ")[i] raises IndexError
PageIndexError ==
  \E r \in PageResponses :
    LET entries == LinkEntries(r[1], url.txt) IN
    /\ GetPage(OkStatus, r[2], r[1])
    /\ HasNext(r[1], url.txt)
    /\ NextIndex(entries) \notin DOMAIN entries
    /\ result' = Extend(result, r[2])
    /\ pc' = "done"
    /\ outcome' = Raised("IndexError", "link", NoMessage)
    /\ UNCHANGED <<op, method, url, valid_states, retry_count, prev_response_data,
                   slept>>

NextPages ==
  \/ _get_all
  \/ PageFails \/ PageError \/ PageLast \/ PageNext \/ PageKeyError \/ PageIndexError

SpecPages == Init /\ [][NextPages]_vars

\* ------------------------------------------------------------- resolver
\* Identifiers are texts, kept as sequences of characters.
HexLen == 32
HexDigits == {"0", "1", "2", "3", "4", "5", "6", "7", "8", "9",
              "a", "b", "c", "d", "e", "f", "A", "B", "C", "D", "E", "F"}
\* 32 hex digits, the same with hyphens, 31 hex digits, a name
HexText(n) == [i \in 1..n |-> "a"]
HyphenText == [i \in 1..(HexLen + 4) |-> IF i \in {9, 14, 19, 24} THEN "-" ELSE "a"]
NameText == <<"v", "m", "1">>
Values == {<<>>, NameText, HexText(HexLen), HyphenText, HexText(HexLen - 1)}
\* the filters callers pass as extra (a project or tenant filter), as a dict
Extras == {{}, {<<"project_uuid", <<"p", "1">>>>}}

\* dicts are sets of <<key, value>> pairs with distinct keys
Keys(d) == {p[1] : p \in d}
Item(d, k) == (CHOOSE p \in d : p[1] = k)[2]
Pop(d, k) == {p \in d : p[1] # k}
Update(d, e) == {p \in d : p[1] \notin Keys(e)} \cup e

\* is_uuid: UUID(value) succeeds when the text without its hyphens is 32 hex
\* digits
Unhyphened(text) == SelectSeq(text, LAMBDA c : c # "-")
is_uuid(text) ==
  /\ Len(Unhyphened(text)) = HexLen
  /\ \A i \in DOMAIN Unhyphened(text) : Unhyphened(text)[i] \in HexDigits

\* _query_resource_by_uuid and _query_resource_by_name: the payload
ByUuid(v, e) == Update({<<"uuid", v>>}, e)
ByName(v, e) == Update({<<"name_exact", v>>}, e)
\* _get_resource: the payload of the strategy chosen
ResourcePayloadByName(v, e) == ByName(v, e)
ResourcePayload(v, e) == IF is_uuid(v) THEN ByUuid(v, e) ELSE ByName(v, e)

\* _query_resource: a "uuid" in the query is popped and appended to the URL
UrlSuffix(params) == IF "uuid" \in Keys(params) THEN Item(params, "uuid") ELSE <<>>
Filters(params) == Pop(params, "uuid")

\* _make_get_query up to its request: self._get(url, valid_states=[200],
\* params=query_params), reached from the top-level operation o
Query(o, v, e, params, first, few) ==
  /\ pc = "idle"
  /\ op' = o
  /\ value' = v
  /\ extra' = e
  /\ query_url' = UrlSuffix(params)
  /\ query_params' = Filters(params)
  /\ get_first' = first
  /\ get_few' = few
  /\ frame' = "_make_get_query"
  /\ pc' = "make_request"
  /\ method' = "get"
  /\ url' = StartUrl
  /\ valid_states' = {OkStatus}
  /\ retry_count' = GetRetryCount
  /\ prev_response_data' = "None"
  /\ UNCHANGED <<result, outcome, requests, sent, got, slept, wait, ops, calls>>

\* if not value: raise WaldurClientException("Empty ID is not allowed.")
_get_resource_empty ==
  \E v \in Values, e \in Extras :
    /\ pc = "idle"
    /\ Len(v) = 0
    /\ op' = "_get_resource"
    /\ value' = v
    /\ extra' = e
    /\ pc' = "done"
    /\ outcome' = Raised("WaldurClientException", "empty_id", NoMessage)
    /\ UNCHANGED <<method, url, valid_states, retry_count, prev_response_data,
                   result, requests, sent, got, slept, frame, query_url,
                   query_params, get_first, get_few, wait, ops, calls>>

\* _get_resource(endpoint, value, extra) with a value that is not empty
_get_resource ==
  \E v \in Values, e \in Extras :
    /\ Len(v) # 0
    /\ Query("_get_resource", v, e, ResourcePayload(v, e), FALSE, FALSE)

\* _make_get_query(url, query_params, get_first, get_few)
_make_get_query ==
  \E e \in Extras, first \in BOOLEAN, few \in BOOLEAN :
    Query("_make_get_query", <<>>, e, e, first, few)

\* get_subnet_by_uuid(uuid): _get_tenant_subnet_by_uuid queries {"uuid": uuid}
get_subnet_by_uuid ==
  \E v \in Values :
    /\ is_uuid(v)
    /\ Query("get_subnet_by_uuid", v, {}, ByUuid(v, {}), FALSE, FALSE)

\* Python truth of a result: "", [] and {} are false
Truthy(val) == Len(val.v) > 0
\* an element of a list of resources
Element(name) == [t |-> "dict", v |-> <<name>>]

\* _make_get_query after its request: what it does with the result of _get
MakeGetQueryResultUnchecked(val, first, few) ==
  IF ~Truthy(val) THEN Raised("ObjectDoesNotExist", "empty", NoMessage)
  ELSE IF val.t = "dict" THEN Returned(val)
  ELSE IF few THEN Returned(val) ELSE Returned(Element(val.v[1]))
MakeGetQueryResultUnwrapped(val, first, few) ==
  IF ~Truthy(val) THEN Raised("ObjectDoesNotExist", "empty", NoMessage)
  ELSE IF val.t = "dict" THEN Returned(val)
  ELSE IF Len(val.v) > 1 /\ ~first /\ ~few
    THEN Raised("MultipleObjectsReturned", "ambiguous", NoMessage)
  ELSE IF Len(val.v) > 1 /\ few THEN Returned(val)
  ELSE Returned(Element(val.v[1]))
MakeGetQueryResult(val, first, few) ==
  IF ~Truthy(val) THEN Raised("ObjectDoesNotExist", "empty", NoMessage)
  ELSE IF val.t = "dict" THEN Returned(val)
  ELSE IF Len(val.v) > 1 /\ ~first /\ ~few
    THEN Raised("MultipleObjectsReturned", "ambiguous", NoMessage)
  ELSE IF Len(val.v) > 1 /\ few THEN Returned(val)
  ELSE IF few THEN Returned(val) ELSE Returned(Element(val.v[1]))

\* get_subnet_by_uuid: except ObjectDoesNotExist: pass; return subnet
CatchObjectDoesNotExist(o) ==
  IF o.kind = "raised" /\ o.exc = "ObjectDoesNotExist" THEN Returned(NoValue) ELSE o

\* what the top-level operation makes of the outcome of _make_get_query
Caller(o) == IF op = "get_subnet_by_uuid" THEN CatchObjectDoesNotExist(o) ELSE o

\* _get returned: _make_get_query and its callers run to their end
QueryReturns ==
  /\ pc = "done"
  /\ frame = "_make_get_query"
  /\ outcome.kind = "returned"
  /\ outcome' = Caller(MakeGetQueryResult(outcome.value, get_first, get_few))
  /\ frame' = ""
  /\ UNCHANGED <<pc, op, method, url, valid_states, retry_count,
                 prev_response_data, result, requests, sent, got, slept, query,
                 wait, ops, calls>>

\* _get raised: the error passes through _make_get_query and its callers
QueryRaises ==
  /\ pc = "done"
  /\ frame = "_make_get_query"
  /\ outcome.kind = "raised"
  /\ outcome' = Caller(outcome)
  /\ frame' = ""
  /\ UNCHANGED <<pc, op, method, url, valid_states, retry_count,
                 prev_response_data, result, requests, sent, got, slept, query,
                 wait, ops, calls>>

\* the tenant _get_tenant is asked for, by name
TenantName == <<"t">>

\* extra = {"project_uuid": project["uuid"]}; the model's record of a
\* resource keeps one field, which stands for its uuid
TenantExtraNone(project) == {}
TenantExtra(project) == {<<"project_uuid", project.v>>}

\* _get_tenant(name, project): without a project the tenant is queried at
\* once; with one, self._get_project(project) comes first, and frame is
\* "_get_tenant" while it runs
_get_tenant ==
  \E project \in Values :
    IF project = <<>>
    THEN Query("_get_tenant", TenantName, {}, ResourcePayload(TenantName, {}),
               FALSE, FALSE)
    ELSE /\ pc = "idle"
         /\ op' = "_get_tenant"
         /\ value' = project
         /\ extra' = {}
         /\ query_url' = UrlSuffix(ResourcePayload(project, {}))
         /\ query_params' = Filters(ResourcePayload(project, {}))
         /\ get_first' = FALSE
         /\ get_few' = FALSE
         /\ frame' = "_get_tenant"
         /\ pc' = "make_request"
         /\ method' = "get"
         /\ url' = StartUrl
         /\ valid_states' = {OkStatus}
         /\ retry_count' = GetRetryCount
         /\ prev_response_data' = "None"
         /\ UNCHANGED <<result, outcome, requests, sent, got, slept, wait, ops,
                        calls>>

\* the project was not resolved: the error leaves _get_tenant
TenantRaises ==
  /\ pc = "done"
  /\ frame = "_get_tenant"
  /\ outcome.kind = "raised"
     \/ MakeGetQueryResult(outcome.value, FALSE, FALSE).kind = "raised"
  /\ outcome' = IF outcome.kind = "raised" THEN outcome
                ELSE MakeGetQueryResult(outcome.value, FALSE, FALSE)
  /\ frame' = ""
  /\ UNCHANGED <<pc, op, method, url, valid_states, retry_count,
                 prev_response_data, result, requests, sent, got, slept, query,
                 wait, ops, calls>>

\* the project was resolved: the tenant is queried with the project's uuid
\* as a filter
TenantQuery ==
  /\ pc = "done"
  /\ frame = "_get_tenant"
  /\ outcome.kind = "returned"
  /\ MakeGetQueryResult(outcome.value, FALSE, FALSE).kind = "returned"
  /\ LET project == MakeGetQueryResult(outcome.value, FALSE, FALSE).value
         payload == ResourcePayload(TenantName, TenantExtra(project))
     IN /\ resource' = project
        /\ value' = TenantName
        /\ extra' = TenantExtra(project)
        /\ query_url' = UrlSuffix(payload)
        /\ query_params' = Filters(payload)
  /\ frame' = "_make_get_query"
  /\ pc' = "make_request"
  /\ method' = "get"
  /\ url' = StartUrl
  /\ valid_states' = {OkStatus}
  /\ retry_count' = GetRetryCount
  /\ prev_response_data' = "None"
  /\ outcome' = NoOutcome
  /\ UNCHANGED <<op, result, requests, sent, got, slept, get_first, get_few,
                 wait, steps, args, calls>>

NextResolve ==
  \/ _get_resource_empty \/ _get_resource \/ _make_get_query \/ get_subnet_by_uuid
  \/ _get_tenant \/ TenantRaises \/ TenantQuery
  \/ RetryLimit \/ SendFails \/ Conflict \/ RequestError \/ Success \/ DecodeError
  \/ QueryReturns \/ QueryRaises

SpecResolve == Init /\ [][NextResolve]_vars

\* the call is over: no method is left waiting
Finished == pc = "done" /\ frame = "" /\ steps = <<>>

\* --------------------------------------------------------------- poller
Intervals == 0..MaxInterval
Timeouts == 0..MaxTimeout
\* the probe and sleep counters and the log of states stop at ProbeCap
ProbeCap == MaxTimeout + 2
Cap(n) == IF n < ProbeCap THEN n + 1 ELSE n
Seen(log, state) == IF Len(log) < ProbeCap THEN Append(log, state) ELSE log

\* _is_resource_ready up to its request: _query_resource_by_uuid ends in
\* self._get(url, valid_states=[200], params=query_params)
Probe ==
  /\ pc' = "make_request"
  /\ method' = "get"
  /\ url' = StartUrl
  /\ valid_states' = {OkStatus}
  /\ retry_count' = GetRetryCount
  /\ prev_response_data' = "None"
  /\ probes' = Cap(probes)

\* _wait_for_resource(endpoint, uuid, interval, timeout) up to the request of
\* its first probe
_wait_for_resource ==
  \E i \in Intervals, t \in Timeouts :
    /\ pc = "idle"
    /\ op' = "_wait_for_resource"
    /\ frame' = "_wait_for_resource"
    /\ interval' = i
    /\ timeout' = t
    /\ waited' = 0
    /\ looping' = FALSE
    /\ Probe
    /\ UNCHANGED <<result, outcome, requests, sent, got, slept, query, sleeps,
                   seen, polled, ops, calls>>

\* the request of a probe was answered: pc is "done" and the poller waits
Probed == pc = "done" /\ frame \in {"_wait_for_resource", "_wait_for_external_ip"}
\* the resource _query_resource_by_uuid hands to _is_resource_ready
Resource == MakeGetQueryResult(outcome.value, FALSE, FALSE)
\* the probe read a resource
Found ==
  /\ Probed
  /\ frame = "_wait_for_resource"
  /\ outcome.kind = "returned"
  /\ Resource.kind = "returned"
\* resource["state"]
State == Resource.value.v[1]

\* resource["state"] == "Erred"
IsErredNever(state) == FALSE
IsErred(state) == state = "Erred"
\* resource["state"] == "OK"
IsReadyNever(state) == FALSE
IsReady(state) == state = "OK"
\* waited >= timeout
TimedOutLate(w, t) == w > t
TimedOut(w, t) == w >= t
\* the probe was made in the loop, after a sleep
InLoop == looping
\* waited after the probe: waited += interval in the loop
Waited == IF InLoop THEN waited + interval ELSE waited

\* the request of the probe raised: the error ends the wait
ProbeRaisesAgain ==
  /\ Probed
  /\ outcome.kind = "raised"
  /\ slept' = slept + interval
  /\ polled' = polled + interval
  /\ sleeps' = Cap(sleeps)
  /\ looping' = TRUE
  /\ Probe
  /\ outcome' = NoOutcome
  /\ UNCHANGED <<op, result, requests, sent, got, frame, query, interval,
                 timeout, waited, seen, ops, calls>>
ProbeRaises ==
  /\ Probed
  /\ outcome.kind = "raised"
  /\ frame' = ""
  /\ UNCHANGED <<pc, op, method, url, valid_states, retry_count,
                 prev_response_data, result, outcome, requests, sent, got, slept,
                 query, wait, ops, calls>>

\* the probe got an empty result: _make_get_query raises ObjectDoesNotExist
ProbeEmpty ==
  /\ Probed
  /\ outcome.kind = "returned"
  /\ Resource.kind = "raised"
  /\ outcome' = Resource
  /\ frame' = ""
  /\ UNCHANGED <<pc, op, method, url, valid_states, retry_count,
                 prev_response_data, result, requests, sent, got, slept, query,
                 wait, ops, calls>>

\* _is_resource_ready raises InvalidStateError
ProbeErred ==
  /\ Found
  /\ IsErred(State)
  /\ seen' = Seen(seen, State)
  /\ outcome' = Raised("InvalidStateError", "erred", NoMessage)
  /\ frame' = ""
  /\ UNCHANGED <<pc, op, method, url, valid_states, retry_count,
                 prev_response_data, result, requests, sent, got, slept, query,
                 interval, timeout, waited, probes, sleeps, looping, polled, ops,
                 calls>>

\* in the loop: waited += interval; if waited >= timeout: raise TimeoutError
WaitTimeout ==
  /\ Found
  /\ ~IsErred(State)
  /\ InLoop
  /\ TimedOut(Waited, timeout)
  /\ seen' = Seen(seen, State)
  /\ waited' = Waited
  /\ outcome' = Raised("TimeoutError", "timeout", NoMessage)
  /\ frame' = ""
  /\ UNCHANGED <<pc, op, method, url, valid_states, retry_count,
                 prev_response_data, result, requests, sent, got, slept, query,
                 interval, timeout, probes, sleeps, looping, polled, ops, calls>>

\* while not ready: ends, and _wait_for_resource returns
WaitReady ==
  /\ Found
  /\ ~IsErred(State)
  /\ InLoop => ~TimedOut(Waited, timeout)
  /\ IsReady(State)
  /\ seen' = Seen(seen, State)
  /\ waited' = Waited
  /\ outcome' = Returned(NoValue)
  /\ frame' = ""
  /\ UNCHANGED <<pc, op, method, url, valid_states, retry_count,
                 prev_response_data, result, requests, sent, got, slept, query,
                 interval, timeout, probes, sleeps, looping, polled, ops, calls>>

\* while not ready: time.sleep(interval), then the next probe
WaitAgain ==
  /\ Found
  /\ ~IsErred(State)
  /\ InLoop => ~TimedOut(Waited, timeout)
  /\ ~IsReady(State)
  /\ seen' = Seen(seen, State)
  /\ waited' = Waited
  /\ slept' = slept + interval
  /\ polled' = polled + interval
  /\ sleeps' = Cap(sleeps)
  /\ looping' = TRUE
  /\ Probe
  /\ outcome' = NoOutcome
  /\ UNCHANGED <<op, result, requests, sent, got, frame, query, interval,
                 timeout, ops, calls>>

\* ------------------------------------------------- external-address poller
\* _wait_for_external_ip(uuid, interval, timeout) up to the request of its
\* first probe
_wait_for_external_ip ==
  \E i \in Intervals, t \in Timeouts :
    /\ pc = "idle"
    /\ op' = "_wait_for_external_ip"
    /\ frame' = "_wait_for_external_ip"
    /\ interval' = i
    /\ timeout' = t
    /\ waited' = 0
    /\ looping' = FALSE
    /\ Probe
    /\ UNCHANGED <<result, outcome, requests, sent, got, slept, query, sleeps,
                   seen, polled, ops, calls>>

\* the probe read an instance
IpFound ==
  /\ Probed
  /\ frame = "_wait_for_external_ip"
  /\ outcome.kind = "returned"
  /\ Resource.kind = "returned"
\* resource["external_ips"]
external_ips == SubSeq(Resource.value.v, 2, Len(Resource.value.v))
\* len(resource["external_ips"]) > 0
_instance_has_external_ip == Len(external_ips) > 0
\* what the probe saw
IpSeen == IF _instance_has_external_ip THEN "ip" ELSE "noip"

\* the % operator: the arguments must fill the %s slots of the format
Formats(slots, arguments) == slots = arguments
\* 'Resource "%s" with id "%s" has not got external IP.' % uuid
ExternalIpSlots == 2
ExternalIpArguments == 1
\* the error raised when waited >= timeout: the TimeoutError, when its
\* message can be formatted
ExternalIpTimeout ==
  IF Formats(ExternalIpSlots, ExternalIpArguments)
  THEN Raised("TimeoutError", "timeout", NoMessage)
  ELSE Raised("TypeError", "format", NoMessage)

\* in the loop: waited += interval; if waited >= timeout: raise
IpTimeout ==
  /\ IpFound
  /\ InLoop
  /\ TimedOut(Waited, timeout)
  /\ seen' = Seen(seen, IpSeen)
  /\ waited' = Waited
  /\ outcome' = ExternalIpTimeout
  /\ frame' = ""
  /\ UNCHANGED <<pc, op, method, url, valid_states, retry_count,
                 prev_response_data, result, requests, sent, got, slept, query,
                 interval, timeout, probes, sleeps, looping, polled, ops, calls>>

\* while not ready: ends, and _wait_for_external_ip returns
IpReady ==
  /\ IpFound
  /\ InLoop => ~TimedOut(Waited, timeout)
  /\ _instance_has_external_ip
  /\ seen' = Seen(seen, IpSeen)
  /\ waited' = Waited
  /\ outcome' = Returned(NoValue)
  /\ frame' = ""
  /\ UNCHANGED <<pc, op, method, url, valid_states, retry_count,
                 prev_response_data, result, requests, sent, got, slept, query,
                 interval, timeout, probes, sleeps, looping, polled, ops, calls>>

\* while not ready: time.sleep(interval), then the next probe
IpAgain ==
  /\ IpFound
  /\ InLoop => ~TimedOut(Waited, timeout)
  /\ ~_instance_has_external_ip
  /\ seen' = Seen(seen, IpSeen)
  /\ waited' = Waited
  /\ slept' = slept + interval
  /\ polled' = polled + interval
  /\ sleeps' = Cap(sleeps)
  /\ looping' = TRUE
  /\ Probe
  /\ outcome' = NoOutcome
  /\ UNCHANGED <<op, result, requests, sent, got, frame, query, interval,
                 timeout, ops, calls>>

NextWait ==
  \/ _wait_for_resource \/ _wait_for_external_ip
  \/ RetryLimit \/ SendFails \/ Conflict \/ RequestError \/ Success \/ DecodeError
  \/ ProbeRaises \/ ProbeEmpty \/ ProbeErred \/ WaitTimeout \/ WaitReady
  \/ WaitAgain \/ IpTimeout \/ IpReady \/ IpAgain

SpecWait == Init /\ [][NextWait]_vars

\* the calling thread runs the wait to its end
FairWait == SpecWait /\ WF_vars(NextWait)

\* --------------------------------------------------- multi-step operations
\* An operation is run as the list of the steps its code goes through for the
\* arguments given: requests, polls, and the place where it raises or returns
\* early.  The head of steps is the step being made.
Step(kind, name) == [kind |-> kind, name |-> name]

\* interval=10, timeout=600: the defaults of _get_resource_from_creation_order
DefaultInterval == 10
DefaultTimeout == 600
\* the status _create_resource expects, and _execute_resource_action
CreatedStatus == 201
AcceptedStatus == 202
\* _delete_resource_by_url expects 202 or 204
DeletedStatus == 204

\* the networks argument: items with or without the subnet key, asking for no
\* floating IP, an automatic one, or a given address
Network(subnet, floating_ip) == [subnet |-> subnet, floating_ip |-> floating_ip]
NetworkLists ==
  { <<Network(TRUE, "")>>, <<Network(TRUE, "auto")>>, <<Network(TRUE, "address")>>,
    <<Network(FALSE, "auto")>>, <<Network(TRUE, "auto"), Network(FALSE, "")>> }
\* interval and timeout as callers pass them
OpIntervals == {MaxInterval}
OpTimeouts == {MaxTimeout}

Args(p, w, g, d, c, dc, u, n, cm, i, t) ==
  [project |-> p, wait |-> w, gateway_ip |-> g, disable_gateway |-> d,
   connect_subnet |-> c, disconnect_subnet |-> dc, unlink_subnet |-> u,
   networks |-> n, check_mode |-> cm, interval |-> i, timeout |-> t,
   uuid |-> TRUE, options |-> {}]

\* the collections of the API that the operations below poll
Endpoints ==
  [OpenStackInstance |-> "openstack-instances",
   OpenStackNetwork |-> "openstack-networks",
   OpenStackSecurityGroup |-> "openstack-security-groups",
   OpenStackSnapshot |-> "openstack-snapshots",
   OpenStackSubnet |-> "openstack-subnets",
   OpenStackVolume |-> "openstack-volumes"]

\* if wait: self._wait_for_resource(endpoint, ...)
WaitStepsAlways(a, endpoint) == <<Step("state", endpoint)>>
WaitSteps(a, endpoint) == IF a.wait THEN <<Step("state", endpoint)>> ELSE <<>>

\* _get_tenant: the project is resolved first when one is given
TenantSteps(a) ==
  (IF a.project THEN <<Step("get", "project")>> ELSE <<>>)
  \o <<Step("get", "tenant")>>

\* the gateway arguments are rejected: gateway_ip with disable_gateway, or
\* neither of them
GatewayInvalidBothOnly(a) == a.gateway_ip /\ a.disable_gateway
GatewayInvalid(a) ==
  \/ a.gateway_ip /\ a.disable_gateway
  \/ ~a.gateway_ip /\ ~a.disable_gateway

\* _build_resource_url: if not uid1: raise WaldurClientException
_build_resource_url_unchecked(uid) == <<>>
_build_resource_url(uid) ==
  IF uid THEN <<>> ELSE <<Step("raise", "WaldurClientException")>>
\* the URL is built, then the request is sent
_execute_resource_action(uid, action) ==
  _build_resource_url(uid) \o <<Step("action", action)>>
_update_resource(uid) == _build_resource_url(uid) \o <<Step("put", "resource")>>
_delete_resource(uid) == _build_resource_url(uid) \o <<Step("delete", "resource")>>

create_security_group_steps(a) ==
  TenantSteps(a) \o <<Step("post", "create_security_group")>>
  \o WaitSteps(a, Endpoints.OpenStackSecurityGroup)

create_snapshot_steps(a) ==
  <<Step("get", "volume"), Step("post", "snapshot")>>
  \o WaitSteps(a, Endpoints.OpenStackSnapshot)

create_subnet_steps(a) ==
  TenantSteps(a)
  \o (IF GatewayInvalid(a) THEN <<Step("raise", "ValidationError")>>
      ELSE <<Step("post", "create_subnet")>>
           \o WaitSteps(a, Endpoints.OpenStackNetwork))

update_subnet_steps_put_first(a) ==
  IF GatewayInvalid(a) THEN <<Step("raise", "ValidationError")>>
  ELSE _update_resource(a.uuid)
       \o (IF a.connect_subnet THEN _execute_resource_action(a.uuid, "connect")
           ELSE <<>>)
       \o (IF a.disconnect_subnet
           THEN _execute_resource_action(a.uuid, "disconnect") ELSE <<>>)
       \o (IF a.unlink_subnet THEN _execute_resource_action(a.uuid, "unlink")
           ELSE <<>>)
update_subnet_steps(a) ==
  IF GatewayInvalid(a) THEN <<Step("raise", "ValidationError")>>
  ELSE IF a.connect_subnet /\ a.disconnect_subnet
    THEN <<Step("raise", "ValidationError")>>
  ELSE (IF a.connect_subnet THEN _execute_resource_action(a.uuid, "connect")
        ELSE <<>>)
       \o (IF a.disconnect_subnet
           THEN _execute_resource_action(a.uuid, "disconnect") ELSE <<>>)
       \o (IF a.unlink_subnet THEN _execute_resource_action(a.uuid, "unlink")
           ELSE <<>>)
       \o _update_resource(a.uuid)

\* stop_instance, detach_volume: the action, then the wait
stop_instance_steps(a) ==
  _execute_resource_action(a.uuid, "stop")
  \o WaitSteps(a, Endpoints.OpenStackInstance)
detach_volume_steps(a) ==
  _execute_resource_action(a.uuid, "detach")
  \o WaitSteps(a, Endpoints.OpenStackVolume)
\* attach_volume builds the URL of the instance for its payload first
attach_volume_steps(a) ==
  _build_resource_url(a.uuid) \o _execute_resource_action(a.uuid, "attach")
  \o WaitSteps(a, Endpoints.OpenStackVolume)

\* _networks_to_payload: for each item the subnet key is checked, the subnet
\* resolved, and a floating IP given by address resolved
RECURSIVE _networks_to_payload(_)
_networks_to_payload(networks) ==
  IF networks = <<>> THEN <<>>
  ELSE IF ~Head(networks).subnet THEN <<Step("raise", "ValidationError")>>
  ELSE <<Step("get", "subnet")>>
       \o (IF Head(networks).floating_ip \notin {"", "auto"}
           THEN <<Step("get", "floating_ip")>> ELSE <<>>)
       \o _networks_to_payload(Tail(networks))

\* floating_ips: one entry for each item that asks for a floating IP
floating_ips(networks) ==
  SelectSeq(networks, LAMBDA item : item.floating_ip # "")

\* _get_offering with the name of an offering and the name of a project
OfferingSteps == <<Step("get", "project"), Step("get", "offering")>>

\* _create_scope_via_marketplace: the offering by its UUID, then (unless
\* check_mode) create_marketplace_order, the order's resource, the state poll
_create_scope_via_marketplace(a) ==
  <<Step("get", "offering")>>
  \o (IF a.check_mode THEN <<Step("return", "check_mode")>>
      ELSE <<Step("get", "project"), Step("get", "offering"),
             Step("post", "order"), Step("order", "")>>
           \o WaitSteps(a, Endpoints.OpenStackInstance))

\* if wait and floating_ips: self._wait_for_external_ip(...)
ExternalIpStepsAlways(a) == <<Step("ip", "")>>
ExternalIpSteps(a) ==
  IF a.wait /\ floating_ips(a.networks) # <<>> THEN <<Step("ip", "")>> ELSE <<>>

\* the steps of _create_scope_via_marketplace end the operation in check mode
AfterScope(a) == IF a.check_mode THEN <<>> ELSE ExternalIpSteps(a)

create_instance_via_marketplace_steps(a) ==
  OfferingSteps
  \o <<Step("get", "flavor"), Step("get", "image")>>
  \o (LET n == _networks_to_payload(a.networks) IN
      IF n # <<>> /\ n[Len(n)].kind = "raise" THEN n
      ELSE n \o _create_scope_via_marketplace(a) \o AfterScope(a))

\* an operation is called: its steps are laid out
Operation(o, a, plan) ==
  /\ pc = "idle"
  /\ pc' = "step"
  /\ op' = o
  /\ args' = a
  /\ steps' = plan
  /\ UNCHANGED <<method, url, valid_states, retry_count, prev_response_data,
                 result, outcome, requests, sent, got, slept, frame, query, wait,
                 resource, calls>>

create_security_group ==
  \E project \in BOOLEAN, w \in BOOLEAN, i \in OpIntervals, t \in OpTimeouts :
    LET a == Args(project, w, FALSE, FALSE, FALSE, FALSE, FALSE, <<>>, FALSE, i, t)
    IN Operation("create_security_group", a, create_security_group_steps(a))

create_snapshot ==
  \E w \in BOOLEAN, i \in OpIntervals, t \in OpTimeouts :
    LET a == Args(FALSE, w, FALSE, FALSE, FALSE, FALSE, FALSE, <<>>, FALSE, i, t)
    IN Operation("create_snapshot", a, create_snapshot_steps(a))

create_subnet ==
  \E project \in BOOLEAN, w \in BOOLEAN, g \in BOOLEAN, d \in BOOLEAN,
     i \in OpIntervals, t \in OpTimeouts :
    LET a == Args(project, w, g, d, FALSE, FALSE, FALSE, <<>>, FALSE, i, t)
    IN Operation("create_subnet", a, create_subnet_steps(a))

update_subnet ==
  \E g \in BOOLEAN, d \in BOOLEAN, c \in BOOLEAN, dc \in BOOLEAN, u \in BOOLEAN,
     id \in BOOLEAN :
    LET a == [Args(FALSE, FALSE, g, d, c, dc, u, <<>>, FALSE, 0, 0)
              EXCEPT !.uuid = id]
    IN Operation("update_subnet", a, update_subnet_steps(a))

\* delete_snapshot(uuid): _delete_resource(Endpoints.OpenStackSnapshot, uuid)
delete_snapshot ==
  \E id \in BOOLEAN :
    LET a == [NoArgs EXCEPT !.uuid = id]
    IN Operation("delete_snapshot", a, _delete_resource(a.uuid))

\* the arguments of a resource action
ActionArgs(id, w, i, t) ==
  [Args(FALSE, w, FALSE, FALSE, FALSE, FALSE, FALSE, <<>>, FALSE, i, t)
   EXCEPT !.uuid = id]

stop_instance ==
  \E id \in BOOLEAN, w \in BOOLEAN, i \in OpIntervals, t \in OpTimeouts :
    Operation("stop_instance", ActionArgs(id, w, i, t),
              stop_instance_steps(ActionArgs(id, w, i, t)))

detach_volume ==
  \E id \in BOOLEAN, w \in BOOLEAN, i \in OpIntervals, t \in OpTimeouts :
    Operation("detach_volume", ActionArgs(id, w, i, t),
              detach_volume_steps(ActionArgs(id, w, i, t)))

attach_volume ==
  \E id \in BOOLEAN, w \in BOOLEAN, i \in OpIntervals, t \in OpTimeouts :
    Operation("attach_volume", ActionArgs(id, w, i, t),
              attach_volume_steps(ActionArgs(id, w, i, t)))

create_instance_via_marketplace ==
  \E n \in NetworkLists, w \in BOOLEAN, c \in BOOLEAN, i \in OpIntervals,
     t \in OpTimeouts :
    LET a == Args(TRUE, w, FALSE, FALSE, FALSE, FALSE, FALSE, n, c, i, t)
    IN Operation("create_instance_via_marketplace", a,
                 create_instance_via_marketplace_steps(a))

\* the step about to be made
AtStep(kinds) == pc = "step" /\ steps # <<>> /\ Head(steps).kind \in kinds

\* raise ValidationError(...)
StepRaise ==
  /\ AtStep({"raise"})
  /\ pc' = "done"
  /\ outcome' = Raised(Head(steps).name,
                       IF Head(steps).name = "ValidationError" THEN "validation"
                       ELSE "empty_id", NoMessage)
  /\ UNCHANGED <<op, method, url, valid_states, retry_count, prev_response_data,
                 result, requests, sent, got, slept, frame, query, wait, ops,
                 calls>>

\* what an operation does when one of its steps raised: the operations have
\* no try or except, so nothing more
UnwindRollback(s) == <<Step("delete", "resource")>>
Unwind(s) == <<>>

\* a step raised: the exception leaves the operation
StepRaises ==
  /\ pc = "done"
  /\ frame = ""
  /\ steps # <<>>
  /\ outcome.kind = "raised"
  /\ steps' = Unwind(steps)
  /\ pc' = IF Unwind(steps) = <<>> THEN "done" ELSE "step"
  /\ outcome' = IF Unwind(steps) = <<>> THEN outcome ELSE NoOutcome
  /\ UNCHANGED <<op, method, url, valid_states, retry_count, prev_response_data,
                 result, requests, sent, got, slept, frame, query, wait, args,
                 resource, calls>>

\* check_mode: the order is returned and not sent
StepReturn ==
  /\ AtStep({"return"})
  /\ pc' = "done"
  /\ steps' = <<>>
  /\ outcome' = Returned([t |-> "dict", v |-> <<"check_mode">>])
  /\ UNCHANGED <<op, method, url, valid_states, retry_count, prev_response_data,
                 result, requests, sent, got, slept, frame, query, wait, args,
                 resource, calls>>

\* a resource is resolved: _get_resource or _query_resource, which end in
\* _make_get_query
StepGet ==
  /\ AtStep({"get"})
  /\ frame' = "_make_get_query"
  /\ get_first' = FALSE
  /\ get_few' = FALSE
  /\ pc' = "make_request"
  /\ method' = "get"
  /\ url' = StartUrl
  /\ valid_states' = {OkStatus}
  /\ retry_count' = GetRetryCount
  /\ prev_response_data' = "None"
  /\ outcome' = NoOutcome
  /\ UNCHANGED <<op, result, requests, sent, got, slept, value, extra, query_url,
                 query_params, wait, ops, calls>>

\* the method and the expected status of a sending step
StepMethod(step) ==
  CASE step.kind = "put" -> "put"
    [] step.kind = "delete" -> "delete"
    [] OTHER -> "post"
StepStatuses(step) ==
  CASE step.kind = "post" -> {CreatedStatus}
    [] step.kind = "action" -> {AcceptedStatus}
    [] step.kind = "put" -> {OkStatus}
    [] step.kind = "delete" -> {AcceptedStatus, DeletedStatus}

\* _create_resource, _execute_resource_action, _update_resource,
\* _delete_resource_by_url
StepSend ==
  /\ AtStep({"post", "action", "put", "delete"})
  /\ pc' = "make_request"
  /\ method' = StepMethod(Head(steps))
  /\ url' = StartUrl
  /\ valid_states' = StepStatuses(Head(steps))
  /\ retry_count' = DefaultRetryCount
  /\ prev_response_data' = "None"
  /\ outcome' = NoOutcome
  /\ UNCHANGED <<op, result, requests, sent, got, slept, frame, query, wait, ops,
                 calls>>

\* _wait_for_resource(endpoint, resource["uuid"], interval, timeout)
StepState ==
  /\ AtStep({"state"})
  /\ frame' = "_wait_for_resource"
  /\ interval' = args.interval
  /\ timeout' = args.timeout
  /\ waited' = 0
  /\ looping' = FALSE
  /\ Probe
  /\ outcome' = NoOutcome
  /\ UNCHANGED <<op, result, requests, sent, got, slept, query, sleeps, seen,
                 polled, ops, calls>>

\* _wait_for_external_ip(resource_uuid, interval, timeout)
StepIp ==
  /\ AtStep({"ip"})
  /\ frame' = "_wait_for_external_ip"
  /\ interval' = args.interval
  /\ timeout' = args.timeout
  /\ waited' = 0
  /\ looping' = FALSE
  /\ Probe
  /\ outcome' = NoOutcome
  /\ UNCHANGED <<op, result, requests, sent, got, slept, query, sleeps, seen,
                 polled, ops, calls>>

\* the result of a step is used as a record: resource["uuid"], order["uuid"],
\* self._post(...)["order_uuid"]
Subscripted(step, rest) ==
  \/ step.kind = "post" /\ rest # <<>>
  \/ step.kind = "terminate"

\* what the operation returns after its last step
ReturnsLast(o, val, created) == val
Returns(o, val, created) ==
  IF o \in {"update_subnet", "delete_instance_via_marketplace", "delete_snapshot"}
  THEN val
  ELSE created

\* a step returned: the next one is made, or the operation returns
StepDone ==
  /\ pc = "done"
  /\ frame = ""
  /\ steps # <<>>
  /\ outcome.kind = "returned"
  /\ LET step == Head(steps)
         rest == Tail(steps)
         created == IF step.kind \in {"post", "order"} \/ step = Step("scope", "list")
                    THEN outcome.value
                    ELSE resource
     IN IF Subscripted(step, rest) /\ outcome.value.t # "dict"
        THEN /\ outcome' = Raised("TypeError", "subscript", NoMessage)
             /\ UNCHANGED <<pc, ops>>
        ELSE /\ steps' = rest
             /\ resource' = created
             /\ pc' = IF rest = <<>> THEN "done" ELSE "step"
             /\ outcome' = IF rest = <<>>
                           THEN Returned(Returns(op, outcome.value, created))
                           ELSE NoOutcome
             /\ UNCHANGED args
  /\ UNCHANGED <<op, method, url, valid_states, retry_count, prev_response_data,
                 result, requests, sent, got, slept, frame, query, wait, calls>>

\* ------------------------------------------------------- creation order
\* what _get_resource_from_creation_order makes of an order: the error of an
\* erred order, the resource the order refers to, or nothing yet
OrderOutcomeReferenceFirst(order) ==
  IF Len(order.v) > 1 THEN Returned([t |-> "str", v |-> Tail(order.v)])
  ELSE IF order.v[1] = "erred"
    THEN Raised("InvalidStateError", "erred",
                [NoMessage EXCEPT !.data = "error_message"])
  ELSE NoOutcome
OrderOutcome(order) ==
  IF order.v[1] = "erred"
    THEN Raised("InvalidStateError", "erred",
                [NoMessage EXCEPT !.data = "error_message"])
  ELSE IF Len(order.v) > 1 THEN Returned([t |-> "str", v |-> Tail(order.v)])
  ELSE NoOutcome

\* self.get_order(order_uuid) up to its request
GetOrder ==
  /\ pc' = "make_request"
  /\ method' = "get"
  /\ url' = StartUrl
  /\ valid_states' = {OkStatus}
  /\ retry_count' = GetRetryCount
  /\ prev_response_data' = "None"
  /\ outcome' = NoOutcome

\* _get_resource_from_creation_order(order_uuid): called without interval
\* and timeout
StepOrder ==
  /\ AtStep({"order"})
  /\ frame' = "_get_resource_from_creation_order"
  /\ interval' = DefaultInterval
  /\ timeout' = DefaultTimeout
  /\ waited' = 0
  /\ looping' = FALSE
  /\ GetOrder
  /\ UNCHANGED <<op, result, requests, sent, got, slept, query, probes, sleeps,
                 seen, polled, ops, calls>>

OrderPolled == pc = "done" /\ frame = "_get_resource_from_creation_order"
Order == MakeGetQueryResult(outcome.value, FALSE, FALSE)
OrderFound == OrderPolled /\ outcome.kind = "returned" /\ Order.kind = "returned"

\* get_order raised
OrderRaises ==
  /\ OrderPolled
  /\ outcome.kind = "raised" \/ Order.kind = "raised"
  /\ outcome' = IF outcome.kind = "raised" THEN outcome ELSE Order
  /\ frame' = ""
  /\ UNCHANGED <<pc, op, method, url, valid_states, retry_count,
                 prev_response_data, result, requests, sent, got, slept, query,
                 wait, ops, calls>>

\* the order erred, or it refers to its resource
OrderEnds ==
  /\ OrderFound
  /\ OrderOutcome(Order.value).kind # "none"
  /\ outcome' = OrderOutcome(Order.value)
  /\ resource' = Order.value
  /\ frame' = ""
  /\ UNCHANGED <<pc, op, method, url, valid_states, retry_count,
                 prev_response_data, result, requests, sent, got, slept, query,
                 wait, steps, args, calls>>

\* time.sleep(interval); waited += interval; if waited >= timeout: raise
OrderTimeout ==
  /\ OrderFound
  /\ OrderOutcome(Order.value).kind = "none"
  /\ TimedOut(waited + interval, timeout)
  /\ slept' = slept + interval
  /\ polled' = polled + interval
  /\ waited' = waited + interval
  /\ outcome' = Raised("TimeoutError", "timeout", NoMessage)
  /\ frame' = ""
  /\ UNCHANGED <<pc, op, method, url, valid_states, retry_count,
                 prev_response_data, result, requests, sent, got, query,
                 interval, timeout, probes, sleeps, seen, looping, ops, calls>>

\* the loop goes round: the order is read again
OrderAgain ==
  /\ OrderFound
  /\ OrderOutcome(Order.value).kind = "none"
  /\ ~TimedOut(waited + interval, timeout)
  /\ slept' = slept + interval
  /\ polled' = polled + interval
  /\ waited' = waited + interval
  /\ GetOrder
  /\ UNCHANGED <<op, result, requests, sent, got, frame, query, interval,
                 timeout, probes, sleeps, seen, looping, ops, calls>>

\* ------------------------------------------------ marketplace deletion
\* the options a caller passes to delete_instance_via_marketplace
OptionSets == {{}, {<<"release_floating_ips", "false">>}}

\* marketplace_resource_terminate_order: if options: options =
\* {"attributes": options}
TerminatePayload(options) ==
  IF options # {} THEN {<<"attributes", options>>} ELSE options

\* get_marketplace_resource_scope after a request: the list must hold one
\* resource, and its scope must not be empty
ScopeResultFirst(name, val) ==
  IF ~Truthy(val) THEN Raised("ObjectDoesNotExist", "empty", NoMessage)
  ELSE IF name = "list" THEN Returned(Element(val.v[1]))
  ELSE Returned(val)
ScopeResult(name, val) ==
  IF ~Truthy(val) THEN Raised("ObjectDoesNotExist", "empty", NoMessage)
  ELSE IF name = "list" /\ Len(val.v) > 1
    THEN Raised("MultipleObjectsReturned", "ambiguous", NoMessage)
  ELSE IF name = "list" THEN Returned(Element(val.v[1]))
  ELSE Returned(val)

\* _delete_scope_via_marketplace: the scope is given by a UUID and without a
\* project, so a name that is not a UUID is refused; then the resource of the
\* scope, the scope, and the terminate order
delete_instance_via_marketplace_steps(a) ==
  IF ~a.uuid THEN <<Step("raise", "ValidationError")>>
  ELSE <<Step("scope", "list"), Step("scope", "detail"), Step("terminate", "")>>

delete_instance_via_marketplace ==
  \E id \in BOOLEAN, o \in OptionSets :
    LET a == [NoArgs EXCEPT !.uuid = id, !.options = o]
    IN Operation("delete_instance_via_marketplace", a,
                 delete_instance_via_marketplace_steps(a))

\* self._get(url, valid_states=[200], ...) of get_marketplace_resource_scope
StepScope ==
  /\ AtStep({"scope"})
  /\ frame' = "get_marketplace_resource_scope"
  /\ pc' = "make_request"
  /\ method' = "get"
  /\ url' = StartUrl
  /\ valid_states' = {OkStatus}
  /\ retry_count' = GetRetryCount
  /\ prev_response_data' = "None"
  /\ UNCHANGED <<op, result, outcome, requests, sent, got, slept, query, wait,
                 ops, calls>>

\* the request returned or raised: the checks of
\* get_marketplace_resource_scope
ScopeEnds ==
  /\ pc = "done"
  /\ frame = "get_marketplace_resource_scope"
  /\ frame' = ""
  /\ IF outcome.kind = "raised" THEN UNCHANGED <<outcome, result>>
     ELSE /\ outcome' = ScopeResult(Head(steps).name, outcome.value)
          /\ result' = IF Head(steps).name = "list" THEN outcome.value.v
                       ELSE result
  /\ UNCHANGED <<pc, op, method, url, valid_states, retry_count,
                 prev_response_data, requests, sent, got, slept, query, wait,
                 ops, calls>>

\* marketplace_resource_terminate_order(resource["uuid"], options)
StepTerminate ==
  /\ AtStep({"terminate"})
  /\ query_params' = TerminatePayload(args.options)
  /\ pc' = "make_request"
  /\ method' = "post"
  /\ url' = StartUrl
  /\ valid_states' = {OkStatus}
  /\ retry_count' = DefaultRetryCount
  /\ prev_response_data' = "None"
  /\ UNCHANGED <<op, result, outcome, requests, sent, got, slept, frame, value,
                 extra, query_url, get_first, get_few, wait, ops, calls>>

NextOps ==
  \/ create_security_group \/ create_snapshot \/ create_subnet \/ update_subnet
  \/ create_instance_via_marketplace
  \/ stop_instance \/ detach_volume \/ attach_volume
  \/ delete_snapshot \/ _get_resource_empty
  \/ delete_instance_via_marketplace \/ StepScope \/ ScopeEnds \/ StepTerminate
  \/ StepRaise \/ StepRaises \/ StepReturn \/ StepGet \/ StepSend \/ StepState
  \/ StepIp \/ StepOrder \/ StepDone
  \/ RetryLimit \/ SendFails \/ FollowRedirect \/ Conflict \/ RequestError
  \/ Success \/ DecodeError
  \/ QueryReturns \/ QueryRaises
  \/ ProbeRaises \/ ProbeEmpty \/ ProbeErred \/ WaitTimeout \/ WaitReady
  \/ WaitAgain \/ IpTimeout \/ IpReady \/ IpAgain
  \/ OrderRaises \/ OrderEnds \/ OrderTimeout \/ OrderAgain

SpecOps == Init /\ [][NextOps]_vars

\* ------------------------------------------- several callers of a client
\* The client object holds api_url and headers, set by __init__ and only read
\* afterwards.  retry_count and prev_response_data are parameters of
\* _make_request, waited is a local of _wait_for_resource: each thread has
\* its own in the frames of its call.  calls[t] holds those of thread t, with
\* counts of what the call met: attempts, conflicts, naps.

\* the retry_count the call of a kind starts each request with
Budget(kind) == IF kind = "_make_request" THEN DefaultRetryCount ELSE GetRetryCount

\* a call starts: its parameters and locals are new
Started(c, kind, i, t) ==
  [pc |-> "make_request", kind |-> kind, n |-> c.n + 1,
   retry_count |-> Budget(kind), conflicts |-> 0, attempts |-> 0,
   interval |-> i, timeout |-> t, waited |-> 0, naps |-> 0, looping |-> FALSE,
   outcome |-> ""]

\* the recursive call after a 409: retry_count - 1 is passed to the new frame
\* of the same thread
RetriedOnClient(cs, t) ==
  [u \in Threads |->
     IF u = t THEN [cs[u] EXCEPT !.retry_count = ConflictRetryCount(cs[t].retry_count),
                                 !.conflicts = @ + 1, !.attempts = @ + 1]
     ELSE [cs[u] EXCEPT !.retry_count = ConflictRetryCount(cs[t].retry_count)]]
Retried(cs, t) ==
  [cs EXCEPT ![t].retry_count = ConflictRetryCount(@), ![t].conflicts = @ + 1,
             ![t].attempts = @ + 1]

\* a call ends
Ended(c, outcome_) == [c EXCEPT !.pc = "done", !.outcome = outcome_]

OnlyCalls ==
  UNCHANGED <<pc, op, method, url, valid_states, retry_count, prev_response_data,
              result, outcome, requests, sent, got, slept, frame, query, wait,
              ops>>

CanCall(t) == calls[t].pc \in {"idle", "done"} /\ calls[t].n < MaxCalls
Requesting(t) == calls[t].pc = "make_request" /\ calls[t].retry_count # 0

\* thread t calls _make_request
CallMakeRequest(t) ==
  /\ CanCall(t)
  /\ calls' = [calls EXCEPT ![t] = Started(@, "_make_request", 0, 0)]
  /\ OnlyCalls

\* thread t calls _wait_for_resource
CallWaitForResource(t) ==
  /\ CanCall(t)
  /\ \E i \in OpIntervals, w \in OpTimeouts :
       calls' = [calls EXCEPT ![t] = Started(@, "_wait_for_resource", i, w)]
  /\ OnlyCalls

\* if retry_count == 0: raise
CallRetryLimit(t) ==
  /\ calls[t].pc = "make_request"
  /\ calls[t].retry_count = 0
  /\ calls' = [calls EXCEPT ![t] = Ended(@, "retry_limit")]
  /\ OnlyCalls

\* a 409 answered to thread t
CallConflict(t) ==
  /\ Requesting(t)
  /\ calls' = Retried(calls, t)
  /\ OnlyCalls

\* another unexpected status answered to thread t
CallError(t) ==
  /\ Requesting(t)
  /\ calls' = [calls EXCEPT ![t] = Ended([@ EXCEPT !.attempts = @ + 1], "request_error")]
  /\ OnlyCalls

\* an expected status answered to the _make_request of thread t
CallSuccess(t) ==
  /\ Requesting(t)
  /\ calls[t].kind = "_make_request"
  /\ calls' = [calls EXCEPT ![t] = Ended([@ EXCEPT !.attempts = @ + 1], "returned")]
  /\ OnlyCalls

\* waited of thread t after a probe
CallWaited(c) == IF c.looping THEN c.waited + c.interval ELSE c.waited
\* the locals of a thread after an answered probe
AfterProbe(c) == [c EXCEPT !.attempts = c.attempts + 1, !.waited = CallWaited(c)]

\* a probe of thread t was answered in the loop and waited >= timeout
CallTimeout(t) ==
  /\ Requesting(t)
  /\ calls[t].kind = "_wait_for_resource"
  /\ calls[t].looping
  /\ TimedOut(CallWaited(calls[t]), calls[t].timeout)
  /\ calls' = [calls EXCEPT ![t] = Ended(AfterProbe(@), "timeout")]
  /\ OnlyCalls

\* a probe of thread t read the state OK
CallReady(t) ==
  /\ Requesting(t)
  /\ calls[t].kind = "_wait_for_resource"
  /\ calls[t].looping => ~TimedOut(CallWaited(calls[t]), calls[t].timeout)
  /\ calls' = [calls EXCEPT ![t] = Ended(AfterProbe(@), "returned")]
  /\ OnlyCalls

\* a probe of thread t read another state: time.sleep(interval) and the next
\* probe, a new _make_request with the retry_count of _get
CallAgain(t) ==
  /\ Requesting(t)
  /\ calls[t].kind = "_wait_for_resource"
  /\ calls[t].looping => ~TimedOut(CallWaited(calls[t]), calls[t].timeout)
  /\ calls' = [calls EXCEPT ![t] =
                 [AfterProbe(@) EXCEPT !.naps = @ + 1, !.looping = TRUE,
                                       !.attempts = 0, !.conflicts = 0,
                                       !.retry_count = Budget("_wait_for_resource")]]
  /\ OnlyCalls

NextCalls ==
  \E t \in Threads :
    \/ CallMakeRequest(t) \/ CallWaitForResource(t) \/ CallRetryLimit(t)
    \/ CallConflict(t) \/ CallError(t) \/ CallSuccess(t) \/ CallTimeout(t)
    \/ CallReady(t) \/ CallAgain(t)

SpecCalls == Init /\ [][NextCalls]_vars

\* ===================================================== properties
RequestOps == {"_get", "_head", "_post", "_put", "_patch", "_delete"}

\* the number of unexpected 409 responses among the first n
Conflicts(n) ==
  Cardinality({i \in 1..n : i <= Len(got) /\ got[i].status = ConflictStatus
                            /\ ConflictStatus \notin valid_states})

\* the value a response body stands for: "" when empty, else the parsed JSON
Payload(text) == IF text = "" THEN EmptyString ELSE Json(text)

\* C1: with the default retry budget, when every response is an unexpected
\* 409 the call sends exactly 3 requests, never a 4th, and ends with the
\* retry-limit error carrying the method, the URL and the last 409 body.
ConflictExhaustion ==
  ( /\ op \in {"_post", "_put", "_patch", "_delete", "_head"}
    /\ ConflictStatus \notin valid_states
    /\ \A i \in DOMAIN got : got[i].status = ConflictStatus )
  => /\ requests <= 3
     /\ pc = "done" =>
          /\ requests = 3
          /\ outcome.kind = "raised"
          /\ outcome.exc = "WaldurClientException"
          /\ outcome.error = "retry_limit"
          /\ outcome.msg.method = method
          /\ outcome.msg.url = sent[1].url
          /\ outcome.msg.data = got[Len(got)].text

ConflictExhaustionReached ==
  /\ pc = "done" /\ op = "_delete" /\ requests = 3
  /\ outcome.error = "retry_limit"
  /\ got[1].text = "" /\ got[2].text = "oops" /\ got[3].text = "[a]"

\* C2 as stated: for _get, _post, _put, _patch and _delete, a call whose first
\* response is an unexpected 409 sends a second request, and when that one is
\* answered with an expected status the call returns its payload.
ConflictRecoveryEveryWrapper ==
  ( /\ op \in {"_get", "_post", "_put", "_patch", "_delete"}
    /\ pc = "done"
    /\ Len(got) >= 1
    /\ got[1].status = ConflictStatus
    /\ ConflictStatus \notin valid_states )
  => /\ requests >= 2
     /\ ( /\ got[2].status \in valid_states
          /\ ~(op = "_post" /\ got[2].status \in RedirectCodes)
          /\ got[2].text = "" \/ IsJson(got[2].text) )
        => outcome = Returned(Payload(got[2].text))

\* C2 amended: for _post, _put, _patch and _delete a first unexpected 409 is
\* followed by a second request, and when that one is answered with an
\* expected status (not a redirect answered to a POST) and an empty or JSON
\* body the call ends there and returns its payload; _get, whose budget is 1,
\* sends no second request and ends with the retry-limit error.
ConflictRecovery ==
  ( /\ op \in {"_get", "_post", "_put", "_patch", "_delete"}
    /\ Len(got) >= 1
    /\ got[1].status = ConflictStatus
    /\ ConflictStatus \notin valid_states )
  => IF op = "_get"
     THEN /\ requests = 1
          /\ pc = "done" => outcome.kind = "raised" /\ outcome.error = "retry_limit"
     ELSE /\ pc = "done" => requests >= 2
          /\ ( /\ Len(got) >= 2
               /\ got[2].status \in valid_states
               /\ ~(op = "_post" /\ got[2].status \in RedirectCodes)
               /\ got[2].text = "" \/ IsJson(got[2].text) )
             => /\ pc = "done"
                /\ requests = 2
                /\ outcome = Returned(Payload(got[2].text))

ConflictRecoveryReached ==
  /\ pc = "done" /\ op = "_put" /\ requests = 2
  /\ got[1].status = 409 /\ got[2].status = 200 /\ got[2].text = "[a]"
  /\ outcome.kind = "returned"

\* C3 as stated: every call of the request executor ends.
RequestTerminates == <>(pc = "done")

\* C4: a network failure on any attempt ends the call at that attempt with the
\* transport error: no later request, and no sleep beyond those of the
\* earlier 409 retries.
TransportFailureEndsCall ==
  op \in RequestOps =>
    \A i \in DOMAIN got :
      got[i].status = NetworkFailure =>
        /\ i = Len(got)
        /\ requests = i
        /\ pc = "done"
        /\ outcome.kind = "raised"
        /\ outcome.exc = "WaldurClientException"
        /\ outcome.error = "transport"
        /\ slept = 2 * Conflicts(i - 1)

TransportFailureReached ==
  /\ pc = "done" /\ op = "_post" /\ requests = 3
  /\ got[1].status = 409 /\ got[2].status = 302 /\ got[3].status = NetworkFailure
  /\ retry_count = 2

\* C5: a response whose status is not expected, not 409 and not a redirect
\* answered to a POST ends the call at that response with the request error
\* carrying the URL, the status and the parsed body, whatever budget remains:
\* no later request and no sleep for it.
UnexpectedStatusEndsCall ==
  op \in RequestOps =>
    \A i \in DOMAIN got :
      ( /\ got[i].status \notin valid_states
        /\ got[i].status \notin {ConflictStatus, NetworkFailure}
        /\ ~(method = "post" /\ got[i].status \in RedirectCodes) )
      => /\ i = Len(got)
         /\ requests = i
         /\ pc = "done"
         /\ outcome.kind = "raised"
         /\ outcome.exc = "WaldurClientException"
         /\ outcome.error = "request_error"
         /\ outcome.msg.url = sent[i].url
         /\ outcome.msg.status = got[i].status
         /\ outcome.msg.json = (IF IsJson(got[i].text) THEN Json(got[i].text)
                                ELSE NoValue)
         /\ slept = 2 * Conflicts(i - 1)

UnexpectedStatusReached ==
  /\ pc = "done" /\ op = "_patch" /\ requests = 3 /\ retry_count = 1
  /\ got[3].status = 404 /\ got[3].text = "[a]"
  /\ outcome.error = "request_error"

RECURSIVE Records(_)
Records(n) ==
  IF n = 0 THEN <<>> ELSE Records(n - 1) \o Json(got[n].text).v

\* the first n responses are pages: status 200 with a Link header
Pages(n) == \A i \in 1..n : got[i].status = OkStatus /\ got[i].link

\* C7 as stated: while every page received carries a rel="next" entry, the
\* next request goes to that entry's URL; at the first page without one the
\* call returns the records of all pages, in page order.
NextChainRead ==
  ( /\ op = "_get_all"
    /\ Pages(Len(got))
    /\ \A i \in 1..(Len(got) - 1) : got[i].next # 0 )
  => /\ \A i \in 1..(Len(got) - 1) : sent[i + 1].url.page = got[i].next
     /\ Len(got) >= 1 =>
          IF got[Len(got)].next # 0
          THEN pc = "get_all" /\ url.page = got[Len(got)].next
          ELSE /\ pc = "done"
               /\ outcome = Returned([t |-> "list", v |-> Records(Len(got))])

\* C8: when the first response is 200 without a Link header the call ends
\* after this one request and returns exactly its records.
SinglePageWithoutLink ==
  ( /\ op = "_get_all"
    /\ Len(got) >= 1
    /\ got[1].status = OkStatus
    /\ ~got[1].link )
  => /\ pc = "done"
     /\ requests = 1
     /\ outcome.kind = "returned"
     /\ outcome.value = Json(got[1].text)
     /\ result = Json(got[1].text).v

SinglePageWithoutLinkReached ==
  /\ op = "_get_all" /\ pc = "done" /\ requests = 1
  /\ got[1].status = 200 /\ ~got[1].link /\ got[1].text = "[a,b]"
  /\ outcome.value.v = <<"a", "b">>

\* C9 as stated: when the first page's Link header has a rel="first" entry
\* and a rel="last" entry for a later page (and no rel="next" entry), the
\* call does not end before that later page was requested.  Stated for the
\* listings of the test, whose URLs contain neither "next" nor "prev".
LastPageRead ==
  ( /\ op = "_get_all"
    /\ pc = "done"
    /\ url.txt = ""
    /\ Len(got) >= 1
    /\ got[1].status = OkStatus
    /\ got[1].link /\ got[1].first /\ got[1].next = 0
    /\ got[1].last # 0 /\ got[1].last # sent[1].url.page )
  => /\ requests >= 2
     /\ sent[2].url.page = got[1].last
     /\ outcome.kind = "returned"

\* C10 as stated: when the first page has a Link header with a next target
\* and a later page is answered 200 without a Link header, the call ends at
\* that page without an error and returns the records of all pages read.
\* Stated for listings whose URLs contain neither "next" nor "prev".
MissingCursorEndsRead ==
  ( /\ op = "_get_all"
    /\ url.txt = ""
    /\ Len(got) >= 2
    /\ Pages(Len(got) - 1)
    /\ got[1].next # 0
    /\ got[Len(got)].status = OkStatus
    /\ ~got[Len(got)].link )
  => /\ pc = "done"
     /\ outcome = Returned([t |-> "list", v |-> Records(Len(got))])

\* C11 as stated: the reader decides from the rel="next" entry alone: a page
\* whose Link header has no rel="next" entry is the last request of the call,
\* which returns there, whatever text the URLs of the header contain.
NextEntryDecides ==
  op = "_get_all" =>
    \A i \in DOMAIN got :
      (got[i].status = OkStatus /\ got[i].link /\ got[i].next = 0)
      => /\ i = Len(got)
         /\ requests = i
         /\ pc = "done"
         /\ outcome.kind = "returned"

ListAnswer ==
  /\ requests = 1
  /\ got[1].status = OkStatus
  /\ got[1].text = "" \/ (IsJson(got[1].text) /\ Json(got[1].text).t = "list")
\* the results of the first response
Results == IF got[1].text = "" THEN <<>> ELSE Json(got[1].text).v

\* C13: for a non-empty identifier _get_resource looks the resource up by
\* its UUID (the UUID appended to the URL) when the identifier parses as a
\* UUID, and queries name_exact = identifier otherwise; the extra filters are
\* the query parameters of the one in the first case and are added to those
\* of the other; one request is sent with these parameters, never a second
\* one with the other strategy.
LookupStrategy ==
  (op = "_get_resource" /\ Len(value) # 0) =>
    /\ IF is_uuid(value)
       THEN /\ query_url = value
            /\ query_params = extra
       ELSE /\ query_url = <<>>
            /\ query_params = {<<"name_exact", value>>} \cup extra
    /\ requests <= 1
    /\ requests = 1 => sent[1].kwargs
    /\ Finished => requests = 1

LookupStrategyReached ==
  /\ op = "_get_resource" /\ Finished /\ requests = 1
  /\ value = HyphenText /\ extra # {}
  /\ query_url = HyphenText /\ query_params = extra
  /\ outcome = Returned(Element("a"))

\* C14 as stated: an empty result ends in ObjectDoesNotExist whatever the
\* flags; two or more results without get_first and get_few end in
\* MultipleObjectsReturned; with get_first set, one or more results give the
\* element at position zero.
MultiplicityAnyFlags ==
  (op \in {"_get_resource", "_make_get_query"} /\ Finished /\ ListAnswer) =>
    /\ Len(Results) = 0 =>
         outcome.kind = "raised" /\ outcome.exc = "ObjectDoesNotExist"
    /\ (Len(Results) >= 2 /\ ~get_first /\ ~get_few) =>
         outcome.kind = "raised" /\ outcome.exc = "MultipleObjectsReturned"
    /\ (Len(Results) >= 1 /\ get_first) =>
         outcome = Returned(Element(Results[1]))

\* C14 amended: an empty result ends in ObjectDoesNotExist whatever the
\* flags; two or more results without get_first and get_few end in
\* MultipleObjectsReturned; with get_first set and get_few not set, one or
\* more results give the element at position zero.
Multiplicity ==
  (op \in {"_get_resource", "_make_get_query"} /\ Finished /\ ListAnswer) =>
    /\ Len(Results) = 0 =>
         outcome.kind = "raised" /\ outcome.exc = "ObjectDoesNotExist"
    /\ (Len(Results) >= 2 /\ ~get_first /\ ~get_few) =>
         outcome.kind = "raised" /\ outcome.exc = "MultipleObjectsReturned"
    /\ (Len(Results) >= 1 /\ get_first /\ ~get_few) =>
         outcome = Returned(Element(Results[1]))

MultiplicityReached ==
  /\ op = "_make_get_query" /\ Finished /\ ListAnswer
  /\ get_first /\ ~get_few
  /\ got[1].text = "[a,b]"
  /\ outcome = Returned(Element("a"))

\* C15: with get_few set, every non-empty list result is returned whole: a
\* list of one element stays a list, and so does the result when get_first
\* is set as well.
FewReturnsList ==
  ( /\ op \in {"_get_resource", "_make_get_query"}
    /\ Finished /\ ListAnswer
    /\ get_few
    /\ Len(Results) >= 1 )
  => outcome = Returned([t |-> "list", v |-> Results])

FewReturnsListReached ==
  /\ op = "_make_get_query" /\ Finished /\ ListAnswer
  /\ get_few /\ get_first
  /\ got[1].text = "[a]"
  /\ outcome = Returned([t |-> "list", v |-> <<"a">>])

\* C16 as stated: when the server answers a lookup by UUID with 404, or with
\* an empty result, the resolution ends in ObjectDoesNotExist, and
\* get_subnet_by_uuid returns None.
UnknownUuidIsAbsent ==
  ( /\ op \in {"_get_resource", "get_subnet_by_uuid"}
    /\ is_uuid(value)
    /\ Finished
    /\ requests = 1
    /\ \/ got[1].status = 404
       \/ got[1].status = OkStatus /\ got[1].text \in {"", "[]"} )
  => IF op = "get_subnet_by_uuid"
     THEN outcome = Returned(NoValue)
     ELSE outcome.kind = "raised" /\ outcome.exc = "ObjectDoesNotExist"

\* ceil(a / b) for b > 0
Ceil(a, b) == (a + b - 1) \div b

\* C17: when the first probe reports "OK" the wait returns after exactly one
\* probe and without any sleep, whatever interval and timeout are.
ReadyAtFirstProbe ==
  (op = "_wait_for_resource" /\ Len(seen) >= 1 /\ seen[1] = "OK") =>
    /\ Finished
    /\ outcome = Returned(NoValue)
    /\ probes = 1
    /\ sleeps = 0
    /\ slept = 0

ReadyAtFirstProbeReached ==
  /\ op = "_wait_for_resource" /\ Finished
  /\ interval = 2 /\ timeout = 0
  /\ seen = <<"OK">> /\ probes = 1 /\ sleeps = 0
  /\ outcome = Returned(NoValue)

\* C18: a probe that reports "Erred" ends the wait with InvalidStateError at
\* that probe: no probe and no sleep follow it, and the error is never
\* TimeoutError, also when this probe is the one at which the elapsed time
\* reaches the timeout.
ErredEndsWait ==
  op = "_wait_for_resource" =>
    \A i \in DOMAIN seen :
      seen[i] = "Erred" =>
        /\ i = Len(seen)
        /\ Finished
        /\ outcome.kind = "raised"
        /\ outcome.exc = "InvalidStateError"
        /\ probes = i
        /\ sleeps = i - 1

ErredEndsWaitReached ==
  /\ op = "_wait_for_resource" /\ Finished
  /\ interval = 1 /\ timeout = 1
  /\ seen = <<"Updating", "Erred">>
  /\ probes = 2 /\ sleeps = 1
  /\ outcome.exc = "InvalidStateError"

\* every probe so far reported a state that is neither "OK" nor "Erred"
Transitional == \A i \in DOMAIN seen : seen[i] \notin {"OK", "Erred"}

\* C19: with positive interval and timeout, while every probe reports a
\* transitional state the wait goes on until it has slept
\* ceil(timeout / interval) times and probed once more than that, and then
\* ends with TimeoutError.
TimeoutAfterCeilSleeps ==
  ( /\ op = "_wait_for_resource"
    /\ interval > 0 /\ timeout > 0
    /\ Transitional )
  => /\ sleeps <= Ceil(timeout, interval)
     /\ probes <= 1 + Ceil(timeout, interval)
     /\ (Finished /\ probes = Len(seen)) =>
          /\ outcome.kind = "raised"
          /\ outcome.exc = "TimeoutError"
          /\ sleeps = Ceil(timeout, interval)
          /\ probes = 1 + Ceil(timeout, interval)
     /\ Len(seen) = 1 + Ceil(timeout, interval) => Finished

TimeoutAfterCeilSleepsReached ==
  /\ op = "_wait_for_resource" /\ Finished
  /\ interval = 2 /\ timeout = 3
  /\ seen = <<"Updating", "Updating", "Updating">>
  /\ sleeps = 2 /\ probes = 3 /\ slept = 4
  /\ outcome.exc = "TimeoutError"

\* C20 as stated: when the probe made at the moment the elapsed time reaches
\* or exceeds the timeout reports "OK", the wait returns normally and does
\* not raise TimeoutError.
ReadyAtTimeoutReturns ==
  ( /\ op = "_wait_for_resource"
    /\ Finished
    /\ interval > 0
    /\ sleeps >= 1
    /\ probes = Len(seen)
    /\ seen[Len(seen)] = "OK"
    /\ sleeps * interval >= timeout )
  => outcome = Returned(NoValue)

\* C21 as stated: every wait ends, whatever interval (0 included), timeout
\* and states the probes report.
WaitTerminates == <>Finished

\* C22 as stated: _wait_for_external_ip returns after one probe and no sleep
\* when the first probe finds an external address, and when every probe
\* finds none the wait ends with TimeoutError and with no other error.
ExternalIpShape ==
  op = "_wait_for_external_ip" =>
    /\ (Len(seen) >= 1 /\ seen[1] = "ip") =>
         /\ Finished
         /\ outcome = Returned(NoValue)
         /\ probes = 1
         /\ sleeps = 0
    /\ ( /\ Finished
         /\ probes = Len(seen)
         /\ \A i \in DOMAIN seen : seen[i] = "noip" )
       => /\ outcome.kind = "raised"
          /\ outcome.exc = "TimeoutError"

\* the operations that create a resource and then poll its state
CreateThenPoll == {"create_security_group", "create_snapshot"}
\* the create request succeeded and the poll of the state raised
PollFailed ==
  /\ op \in CreateThenPoll
  /\ pc = "done"
  /\ outcome.kind = "raised"
  /\ steps # <<>>
  /\ Head(steps).kind = "state"

\* C23: in create_security_group and create_snapshot, once the create request
\* succeeded and the poll of the state has raised (InvalidStateError,
\* TimeoutError or a request error), no further request is sent: every step
\* after it keeps the failure and the count of requests and leaves the
\* operation over, and nothing follows the end of the operation.
NoRollback ==
  [][/\ PollFailed => /\ pc' = "done"
                      /\ outcome'.kind = "raised"
                      /\ outcome'.exc = outcome.exc
                      /\ requests' = requests
                      /\ method' = method
     /\ ~Finished]_vars
NoRollbackReached ==
  /\ Finished
  /\ op \in CreateThenPoll
  /\ args.wait
  /\ resource.t = "dict"
  /\ outcome.kind = "raised"
  /\ outcome.exc = "TimeoutError"
  /\ method = "get"

\* the gateway arguments the documentation of update_subnet forbids
BadGateway ==
  \/ args.gateway_ip /\ args.disable_gateway
  \/ ~args.gateway_ip /\ ~args.disable_gateway

\* C24: update_subnet called with gateway_ip together with disable_gateway,
\* or with neither of them, sends no request at all (no connect, disconnect,
\* unlink or PUT) and ends with ValidationError.
UpdateSubnetValidatesFirst ==
  op = "update_subnet" /\ BadGateway =>
    /\ requests = 0
    /\ pc # "make_request"
    /\ pc = "done" => outcome.kind = "raised" /\ outcome.exc = "ValidationError"
UpdateSubnetValidatesFirstReached ==
  /\ Finished
  /\ op = "update_subnet"
  /\ ~args.gateway_ip
  /\ ~args.disable_gateway
  /\ args.connect_subnet
  /\ outcome.exc = "ValidationError"
  /\ requests = 0

\* C25: whenever an operation raises ValidationError, it has sent no request.
ValidationBeforeRequests ==
  outcome.kind = "raised" /\ outcome.exc = "ValidationError" => requests = 0

\* C26: create_security_group with wait set resolves the tenant, then posts,
\* then polls: a POST is sent only after a request was answered, a probe of
\* the security group only after the POST returned a record, and the
\* operation returns, after a probe that reported "OK", the record the POST
\* returned.
SecurityGroupOrder ==
  op = "create_security_group" /\ args.wait =>
    /\ method = "post" => requests >= 1
    /\ frame = "_wait_for_resource" =>
         /\ requests >= 2
         /\ resource.t = "dict"
         /\ steps = <<Step("state", Endpoints.OpenStackSecurityGroup)>>
    /\ Finished /\ outcome.kind = "returned" =>
         /\ outcome.value = resource
         /\ resource.t = "dict"
         /\ seen # <<>>
         /\ seen[Len(seen)] = "OK"
SecurityGroupOrderReached ==
  /\ Finished
  /\ op = "create_security_group"
  /\ args.wait
  /\ outcome.kind = "returned"
  /\ outcome.value = Json("{a}")
  /\ seen = <<"Updating", "OK">>

\* the frames in which create_instance_via_marketplace polls
Polling == {"_get_resource_from_creation_order", "_wait_for_resource",
            "_wait_for_external_ip"}

\* C28: in create_instance_via_marketplace with wait set, the polling sleeps
\* of the call (for the order, the state and the external IP) add up to at
\* most timeout, and every phase sleeps for the caller's interval.
TimeoutIsMaximum ==
  op = "create_instance_via_marketplace" /\ args.wait =>
    /\ polled <= args.timeout
    /\ frame \in Polling => interval = args.interval

\* C29: once a read of the creation order has reported the state "erred",
\* with or without a reference to a resource, the operation has failed with
\* InvalidStateError carrying the order's error message, and the state of
\* the resource has not been probed.
ErredOrderAborts ==
  /\ op = "create_instance_via_marketplace"
  /\ resource.t = "dict"
  /\ resource.v[1] = "erred"
  => /\ pc = "done"
     /\ frame = ""
     /\ outcome.kind = "raised"
     /\ outcome.exc = "InvalidStateError"
     /\ outcome.msg.data = "error_message"
     /\ probes = 0
     /\ seen = <<>>
ErredOrderAbortsReached ==
  /\ Finished
  /\ op = "create_instance_via_marketplace"
  /\ resource = Json("{erred,ref}")
  /\ outcome.exc = "InvalidStateError"
  /\ probes = 0

\* the call asked for a floating IP
AsksFloatingIp == \E n \in 1..Len(args.networks) : args.networks[n].floating_ip # ""

\* C30: a marketplace instance creation with wait set whose instance is "OK"
\* at the first state probe and has an external IP at the first address
\* probe probes the instance twice (state, then address) when a network
\* entry asks for a floating IP, and once (state) when none does.
ProbeCount ==
  /\ op = "create_instance_via_marketplace"
  /\ Finished
  /\ outcome.kind = "returned"
  /\ args.wait
  /\ ~args.check_mode
  /\ seen # <<>>
  /\ seen[1] = "OK"
  /\ AsksFloatingIp => Len(seen) > 1 /\ seen[2] = "ip"
  => IF AsksFloatingIp THEN probes = 2 /\ seen = <<"OK", "ip">>
     ELSE probes = 1 /\ seen = <<"OK">>
ProbeCountReached ==
  /\ op = "create_instance_via_marketplace"
  /\ Finished
  /\ outcome.kind = "returned"
  /\ args.wait
  /\ AsksFloatingIp
  /\ probes = 2
  /\ seen = <<"OK", "ip">>

\* C27: for every interleaving of the calls of several threads, and for calls
\* made one after the other, each call has what is left of its own budget
\* (the retry_count of its kind less its own 409 answers), makes no more
\* attempts than that budget, and has waited for its own sleeps only: a call
\* in progress starts from a full budget and waited = 0 and is not changed by
\* the 409 answers, retries, sleeps and failures of the others.
CallLocal ==
  \A t \in Threads :
    LET c == calls[t] IN
    c.pc # "idle" =>
      /\ c.retry_count = Budget(c.kind) - c.conflicts
      /\ c.attempts <= Budget(c.kind)
      /\ c.outcome = "retry_limit" <=> c.pc = "done" /\ c.conflicts = Budget(c.kind)
      /\ c.waited <= c.naps * c.interval
      /\ c.naps = 0 => c.waited = 0 /\ ~c.looping
      /\ c.outcome = "timeout" => c.waited = c.naps * c.interval /\ c.waited >= c.timeout
CallLocalReached ==
  /\ calls[1].pc = "done"
  /\ calls[1].n = 2
  /\ calls[1].outcome = "retry_limit"
  /\ calls[1].kind = "_make_request"
  /\ calls[2].pc = "make_request"
  /\ calls[2].kind = "_wait_for_resource"
  /\ calls[2].naps = 1
  /\ calls[2].retry_count = GetRetryCount

\* the operations that run one resource action and then wait
ResourceActions == {"stop_instance", "detach_volume", "attach_volume"}

\* C31 as stated: a resource action called with wait unset that returns has
\* sent exactly one request and no probe.
ActionSendsOneRequest ==
  /\ op \in ResourceActions
  /\ ~args.wait
  /\ Finished
  /\ outcome.kind = "returned"
  => requests = 1 /\ probes = 0

\* what a step of a resource action may do
ActionThenWaitStep ==
  op \in ResourceActions =>
     /\ ~args.wait => probes' = 0 /\ frame' = ""
     /\ requests' # requests /\ frame = "" =>
          method = "post" /\ valid_states = {AcceptedStatus}
     /\ ~args.wait /\ pc = "done" => requests' = requests
     /\ requests = 0 /\ pc' = "done" /\ outcome'.kind = "returned" =>
          requests' = 1
     /\ frame' = "_wait_for_resource" /\ frame = "" =>
          /\ pc = "step"
          /\ method = "post"
          /\ valid_states = {AcceptedStatus}
          /\ requests >= 1
\* C31: in stop_instance, detach_volume and attach_volume every request that
\* is not a probe is the POST of the action, expecting 202; with wait unset
\* no probe is made and nothing is sent once that POST was answered for good
\* (one request when the first answer is 202); with wait set the poller
\* starts only from the state in which the POST expecting 202 has returned.
ActionThenWait ==
  [][ActionThenWaitStep]_vars
ActionThenWaitReached ==
  /\ Finished
  /\ op = "stop_instance"
  /\ ~args.wait
  /\ outcome.kind = "returned"
  /\ requests = 1
  /\ method = "post"
  /\ probes = 0

\* C32: delete_instance_via_marketplace sends its POST only when the lookup
\* answered a list of exactly one marketplace resource, to that resource, with
\* the caller's options under "attributes"; when the lookup found no
\* resource or more than one, it fails with ObjectDoesNotExist or
\* MultipleObjectsReturned and sends no POST.
TerminateAfterLookup ==
  op = "delete_instance_via_marketplace" =>
    /\ method = "post" =>
         /\ Len(result) = 1
         /\ resource = Element(result[1])
         /\ requests >= 2
         /\ args.options # {} => query_params = {<<"attributes", args.options>>}
    /\ Len(result) > 1 =>
         /\ method # "post"
         /\ pc = "done"
         /\ outcome.kind = "raised"
         /\ outcome.exc = "MultipleObjectsReturned"
    /\ outcome.kind = "raised" /\ outcome.exc = "ObjectDoesNotExist" =>
         method # "post"
TerminateAfterLookupReached ==
  /\ op = "delete_instance_via_marketplace"
  /\ Finished
  /\ outcome.kind = "returned"
  /\ method = "post"
  /\ result = <<"a">>
  /\ args.options # {}

\* C33: _get_tenant called with a project resolves the project first, by
\* its uuid in the URL or else by name_exact, with at most one request; only
\* after the project was resolved is the tenant queried, with the filter
\* project_uuid set to the uuid of that project; when the project is not
\* resolved the call fails and has sent no tenant query.
TenantByProject ==
  op = "_get_tenant" =>
    /\ frame = "_get_tenant" =>
         /\ value # TenantName
         /\ resource = NoValue
         /\ requests <= 1
         /\ query_url = (IF is_uuid(value) THEN value ELSE <<>>)
         /\ query_params = (IF is_uuid(value) THEN {} ELSE {<<"name_exact", value>>})
    /\ value = TenantName /\ resource # NoValue =>
         /\ requests >= 1
         /\ got[1].status = OkStatus
         /\ Json(got[1].text) \in {Json("[a]"), Json("{a}")}
         /\ resource = Element("a")
         /\ query_params = {<<"name_exact", TenantName>>,
                            <<"project_uuid", resource.v>>}
    /\ Finished /\ value # TenantName =>
         /\ outcome.kind = "raised"
         /\ requests <= 1
         /\ resource = NoValue
TenantByProjectReached ==
  /\ op = "_get_tenant"
  /\ Finished
  /\ outcome.kind = "returned"
  /\ resource # NoValue
  /\ requests = 2
  /\ "project_uuid" \in Keys(query_params)

\* C34: inside one call of the request executor, a step that receives a 409
\* outside the expected statuses pauses for 2 time units, once, and leaves the
\* call about to run again with the same method and URL and a budget lower by
\* one; no other step pauses, so a call that receives no such 409 never does.
ConflictAnswered ==
  /\ pc = "make_request"
  /\ Len(got') = Len(got) + 1
  /\ got'[Len(got')].status = ConflictStatus
  /\ ConflictStatus \notin valid_states
BackoffStep ==
  /\ ConflictAnswered =>
       /\ slept' = slept + 2
       /\ pc' = "make_request"
       /\ method' = method
       /\ url' = url
       /\ valid_states' = valid_states
       /\ retry_count' = retry_count - 1
  /\ slept' # slept =>
       /\ pc = "make_request"
       /\ retry_count # 0
       /\ Len(got) < MaxLog => ConflictAnswered
BackoffOrdering == [][BackoffStep]_vars
BackoffOrderingReached ==
  /\ op = "_put"
  /\ pc = "done"
  /\ outcome.kind = "returned"
  /\ requests = 3
  /\ slept = 4
  /\ got[1].status = ConflictStatus
  /\ got[2].status = ConflictStatus

\* C35: when the request of a probe of _wait_for_resource or of
\* _wait_for_external_ip fails (no answer, an unexpected status, or a 409,
\* which uses up the budget of the GET), the only step the poller takes ends
\* the wait with that very error, a WaldurClientException that is neither a
\* TimeoutError nor an InvalidStateError: no sleep, no further probe, no
\* further request.
ProbeFailed ==
  /\ Probed
  /\ outcome.kind = "raised"
  /\ outcome.error \in {"transport", "request_error", "retry_limit"}
FailedProbeStep ==
  ProbeFailed =>
    /\ outcome.exc = "WaldurClientException"
    /\ frame' = ""
    /\ pc' = "done"
    /\ outcome' = outcome
    /\ probes' = probes
    /\ sleeps' = sleeps
    /\ polled' = polled
    /\ slept' = slept
    /\ requests' = requests
FailedProbeAborts == [][FailedProbeStep]_vars
FailedProbeAbortsReached ==
  /\ op = "_wait_for_external_ip"
  /\ Finished
  /\ outcome.exc = "WaldurClientException"
  /\ outcome.error = "retry_limit"
  /\ probes = 2
  /\ sleeps = 1
  /\ polled = interval
  /\ slept = interval + BackoffSeconds

\* C36: when a page request of _get_all, the first or a later one, gets no
\* answer or an answer with a status other than 200 (409 included), the
\* listing ends at that request with a WaldurClientException that carries no
\* records, without a pause; once the listing has ended no request is sent.
PageRefused ==
  /\ pc = "get_all"
  /\ Len(got') = Len(got) + 1
  /\ got'[Len(got')].status # OkStatus
AllOrNothingStep ==
  /\ PageRefused =>
       /\ pc' = "done"
       /\ outcome'.kind = "raised"
       /\ outcome'.exc = "WaldurClientException"
       /\ outcome'.value = NoValue
       /\ slept' = slept
  /\ pc = "done" => requests' = requests /\ outcome' = outcome
AllOrNothing == [][AllOrNothingStep]_vars
AllOrNothingReached ==
  /\ op = "_get_all"
  /\ pc = "done"
  /\ requests = 2
  /\ got[1].status = OkStatus
  /\ got[2].status = ConflictStatus
  /\ result # <<>>
  /\ outcome.kind = "raised"
  /\ outcome.value = NoValue

\* C37: in a POST call, a request sent after a redirect and any number of
\* unexpected 409 answers to it goes to the Location of that redirect, and a
\* redirect status answered to a POST never ends the call, whether the status
\* is among the expected ones or not: the call goes on to Location.
OnlyConflicts(j, i) ==
  \A k \in (j + 1)..i :
    got[k].status = ConflictStatus /\ ConflictStatus \notin valid_states
RedirectTargetKept ==
  op = "_post" =>
    /\ \A j \in DOMAIN got : \A i \in j..Len(got) :
         (got[j].status \in RedirectCodes /\ OnlyConflicts(j, i)) =>
           /\ i + 1 \in DOMAIN sent => sent[i + 1].url = got[j].location
           /\ (requests = i /\ pc = "make_request") => url = got[j].location
    /\ \A i \in DOMAIN got :
         (got[i].status \in RedirectCodes /\ requests = i) =>
           /\ pc = "make_request"
           /\ outcome = NoOutcome
RedirectTargetKeptReached ==
  /\ op = "_post"
  /\ valid_states = {200, 302}
  /\ requests = 3
  /\ got[1].status = 302
  /\ got[1].location = [page |-> 2, txt |-> ""]
  /\ got[2].status = ConflictStatus
  /\ sent[1].url = StartUrl
  /\ sent[3].url = [page |-> 2, txt |-> ""]
  /\ pc = "done"
  /\ outcome.kind = "returned"

\* C38: update_subnet sends the action POSTs its flags ask for, connect or
\* disconnect and then unlink, before the PUT that updates the subnet; with
\* connect_subnet and disconnect_subnet both true it fails with
\* ValidationError and sends nothing; when an action POST fails the call ends
\* with that error and the PUT is never sent.
ActionRank(name) ==
  CASE name = "connect" -> 1 [] name = "disconnect" -> 2 [] OTHER -> 3
FlagCount(a) ==
  (IF a.connect_subnet THEN 1 ELSE 0) + (IF a.disconnect_subnet THEN 1 ELSE 0)
  + (IF a.unlink_subnet THEN 1 ELSE 0)
ActionsBeforePut ==
  /\ \A i \in DOMAIN steps : \A j \in DOMAIN steps :
       i < j =>
         /\ steps[i].kind = "put" => steps[j].kind # "action"
         /\ (steps[i].kind = "action" /\ steps[j].kind = "action") =>
              ActionRank(steps[i].name) < ActionRank(steps[j].name)
  /\ method = "put" =>
       /\ \A i \in DOMAIN steps : steps[i].kind # "action"
       /\ requests >= FlagCount(args)
  /\ (args.connect_subnet /\ args.disconnect_subnet) =>
       /\ requests = 0
       /\ method = ""
       /\ Finished => outcome.exc = "ValidationError"
ActionPostFailed ==
  /\ pc = "done"
  /\ steps # <<>>
  /\ Head(steps).kind = "action"
  /\ outcome.kind = "raised"
UpdateSubnetStep ==
  op = "update_subnet" =>
    /\ ActionsBeforePut
    /\ ActionPostFailed =>
         /\ method = "post"
         /\ steps' = <<>>
         /\ pc' = "done"
         /\ outcome' = outcome
    /\ Finished => method' = method /\ requests' = requests
UpdateSubnetOrder == [][UpdateSubnetStep]_vars
UpdateSubnetOrderReached ==
  /\ op = "update_subnet"
  /\ Finished
  /\ args.connect_subnet
  /\ args.unlink_subnet
  /\ outcome.kind = "returned"
  /\ method = "put"
  /\ requests = 3

\* C39: while create_subnet, create_security_group or create_snapshot, called
\* with wait, polls the state of a resource, the collection polled is the one
\* the created resource belongs to: openstack-subnets, openstack-security-groups
\* and openstack-snapshots.
CreatedCollection(o) ==
  CASE o = "create_subnet" -> "openstack-subnets"
    [] o = "create_security_group" -> "openstack-security-groups"
    [] o = "create_snapshot" -> "openstack-snapshots"
PollsCreatedResource ==
  ( /\ op \in {"create_subnet", "create_security_group", "create_snapshot"}
    /\ frame = "_wait_for_resource" )
  => /\ resource.t = "dict"
     /\ Head(steps).name = CreatedCollection(op)

\* C40: _get_resource called with an empty identifier, and update_subnet,
\* delete_snapshot, stop_instance, detach_volume and attach_volume called with
\* an empty uuid, from which _build_resource_url is to build the URL, send no
\* request at all and end with a WaldurClientException; the one raised for
\* the identifier, unless update_subnet refused its arguments before it built
\* a URL, with the ValidationError that is a WaldurClientException too.
BuildsResourceUrl ==
  {"update_subnet", "delete_snapshot", "stop_instance", "detach_volume", "attach_volume"}
RefusedArguments ==
  /\ op = "update_subnet"
  /\ GatewayInvalid(args) \/ (args.connect_subnet /\ args.disconnect_subnet)
====
